---- MODULE Spec2Model ----
(***************************************************************************)
(* Model of the shadow-soul SDK: the client-side Merkle accumulator        *)
(* (sdk/src/utils.ts, class MerkleTree), the commitment and nullifier      *)
(* hashes (sdk/src/commitment.ts, sdk/src/client.ts), proof generation     *)
(* (sdk/src/types.ts) and the stealth-address protocol                     *)
(* (sdk/src/stealth.ts).                                                   *)
(*                                                                         *)
(* A field element given by its number n is the tuple <<n>>.  Digests are  *)
(* modelled as an ideal hash: the digest of (a, b) is the term built from  *)
(* a and b, so two digests are equal only if their inputs are.  The        *)
(* circomlibjs Poseidon and the SHA-256 fallback of poseidonHash build     *)
(* different terms.                                                        *)
(***************************************************************************)
EXTENDS Integers, Sequences, FiniteSets, TLC

\* ------------------------------------------------------------------ bounds
MaxLevels == 2      \* tree depths 1..MaxLevels are explored
MaxVal == 1         \* commitments are drawn from 0..MaxVal
MaxBatch == 2       \* insertBatch takes 0..MaxBatch commitments
MaxCalls == 2       \* insert() calls that may be in flight together
MaxLeaves == 4      \* awaited calls stop appending once the tree holds MaxLeaves
MaxKey == 1         \* randomBytes(32) private keys are drawn from 0..MaxKey
MaxAnnouncements == 3  \* announcements published before a scan
MaxTimestamp == 1   \* StealthAnnouncement.timestamp is drawn from 0..MaxTimestamp
CircuitLevels == 3  \* the levels parameter of Withdraw(20) and Humanship(20), scaled down
MaxPathIndex == 2   \* pathIndices entries handed to the prover are drawn from 0..MaxPathIndex
MaxLeafIndex == 3   \* leaf indices handed to the nullifier hash are drawn from 0..MaxLeafIndex
MaxHashes == 2      \* nullifier hashes computed in one run
MaxDeposits == 2    \* deposits the pool accepts, and payloads sent before an identity is registered
MaxInFlight == 2    \* client calls (deposit, withdraw, registration) that may be in flight together
ClientLevels == 1   \* config.merkleTreeLevels of the clients, scaled down
MaxBigInt == 10     \* secrets and nullifiers of encoded deposits are drawn from 0..MaxBigInt
MaxCoordinate == 1  \* proof coordinates are 0, MaxCoordinate and 256 * MaxCoordinate + 255
MaxProofLen == 2    \* Merkle proofs handed to the verifier have 0..MaxProofLen siblings and direction entries

\* BigInt(n)
Fe(n) == <<n>>

Values == {Fe(n) : n \in 0..MaxVal}
LevelChoices == 1..MaxLevels

VARIABLES
    levels,       \* MerkleTree.levels
    leaves,       \* MerkleTree.leaves
    layers,       \* MerkleTree.layers
    zeroValues,   \* MerkleTree.zeroValues
    circomlibjs,  \* whether import('circomlibjs') succeeds in this process
    lastOp,       \* the most recent completed call, its arguments and result
    calls,        \* insert() calls started without awaiting the earlier ones
    kit,          \* the receiver's StealthAddressKit
    announcements, \* the StealthAnnouncement list published so far
    payments,     \* per announcement, the meta-address generateStealthAddress was given
    scanned,      \* the result of the last scanAnnouncements(kit, announcements)
    proving,      \* the last generateWithdrawProof / generateHumanshipProof call
    nullifierHashes, \* the nullifier hashes computed so far, with their arguments
    ledger,       \* the commitments the pool has appended, in confirmation order
    clients,      \* per ShadowClient, its local merkleTree
    notes,        \* the notes deposit() has returned
    sent,         \* the payloads handed to ledger transactions and relayer requests
    wallets,      \* per ShadowClient, whether this.wallet is set
    pending       \* per ShadowClient, its deposit(), withdraw() and registration call in flight

treeVars == <<levels, leaves, layers, zeroValues, circomlibjs>>
stealthVars == <<kit, announcements, payments, scanned>>
clientVars == <<ledger, clients, notes, sent, wallets, pending>>
vars == <<levels, leaves, layers, zeroValues, circomlibjs, lastOp, calls,
          kit, announcements, payments, scanned, proving, nullifierHashes,
          ledger, clients, notes, sent, wallets, pending>>

\* The ShadowClient instances that share one pool.
ClientIds == {"A", "B"}

\* new MerkleTree(levels): no leaves, no layers.
NewTree == [leaves |-> <<>>, layers |-> <<>>]

\* A deposit() call: the commitment it generated, where it stands, the locals of
\* its merkleTree.insert (call) and the tree object that insert runs on once
\* this.merkleTree has been replaced under it (detached, tree).
IdleDeposit == [pc |-> "idle", secret |-> <<>>, nullifier |-> <<>>, deposit |-> <<>>,
                ledgerIndex |-> <<>>, call |-> <<>>, detached |-> FALSE, tree |-> NewTree]

\* A withdraw() call: its arguments, where it stands and its locals.
IdleWithdraw == [pc |-> "idle", note |-> <<>>, useRelayer |-> FALSE, deposit |-> <<>>,
                 merkleProof |-> <<>>, nullifierHash |-> <<>>, proof |-> <<>>,
                 via |-> "none"]

\* A registerIdentity() or createStealthMetaAddress() call waiting for its transaction.
IdleTransaction == [pc |-> "idle", op |-> "none", ret |-> <<>>]

NoPending == [c \in ClientIds |->
                 [deposit |-> IdleDeposit, withdraw |-> IdleWithdraw, tx |-> IdleTransaction]]

ClientIdle ==
    /\ ledger = <<>>
    /\ clients = [c \in ClientIds |-> NewTree]
    /\ notes = {}
    /\ sent = {}
    /\ wallets = [c \in ClientIds |-> FALSE]
    /\ pending = NoPending

\* ------------------------------------------------------------------ hashing
Pow2(n) == 2 ^ n

\* circomlibjs Poseidon on two inputs.
Poseidon(a, b) == <<a, b>>

\* SHA-256 of the two 32-byte big-endian encodings, reduced to the field.
simplifiedPoseidon(a, b) == <<a, b, "sha256">>

\* poseidonHash([a, b]): circomlibjs when it loads, the fallback otherwise.
poseidonHash(ok, a, b) == IF ok THEN Poseidon(a, b) ELSE simplifiedPoseidon(a, b)

H(a, b) == poseidonHash(circomlibjs, a, b)

\* ------------------------------------------------------------------ nullifier hashes
\* commitment.ts generateNullifierHash: poseidonHash([nullifier, BigInt(leafIndex)]).
generateNullifierHash(nullifier, leafIndex) == H(nullifier, Fe(leafIndex))

\* A nullifier hash that leaves the leaf index out, as generateCommitment's
\* poseidonHash([nullifier, 0]) does.
computeNullifierHashWithoutIndex(nullifier, leafIndex) == H(nullifier, Fe(0))

\* ShadowClient.computeNullifierHash, the step of withdraw() that fills
\* withdrawInputs.nullifierHash: poseidonHash([nullifier, BigInt(leafIndex)]).
computeNullifierHash(nullifier, leafIndex) == H(nullifier, Fe(leafIndex))

\* An identity nullifier hash that leaves the application scope out.
generateExternalNullifierHashWithoutScope(identityNullifier, externalNullifier) ==
    H(identityNullifier, Fe(0))

\* commitment.ts generateExternalNullifierHash (and the same expression in
\* proveHumanity): poseidonHash([identityNullifier, externalNullifier]).
generateExternalNullifierHash(identityNullifier, externalNullifier) ==
    H(identityNullifier, externalNullifier)

\* commitment.circom NullifierHash: Poseidon(2) over (nullifier, leafIndex).
NullifierHash(nullifier, leafIndex) == Poseidon(nullifier, Fe(leafIndex))

\* commitment.circom Commitment: Poseidon(2) over (secret, nullifier).
Commitment(secret, nullifier) == Poseidon(secret, nullifier)

LeafIndexChoices == 0..MaxLeafIndex

GenerateNullifierHash(n, i) ==
    /\ Cardinality(nullifierHashes) < MaxHashes
    /\ nullifierHashes' = nullifierHashes \cup
           {[fn |-> "generateNullifierHash", nullifier |-> n, leafIndex |-> i,
             hash |-> generateNullifierHash(n, i)]}
    /\ UNCHANGED <<treeVars, lastOp, calls, stealthVars, proving, clientVars>>

ComputeNullifierHash(n, i) ==
    /\ Cardinality(nullifierHashes) < MaxHashes
    /\ nullifierHashes' = nullifierHashes \cup
           {[fn |-> "computeNullifierHash", nullifier |-> n, leafIndex |-> i,
             hash |-> computeNullifierHash(n, i)]}
    /\ UNCHANGED <<treeVars, lastOp, calls, stealthVars, proving, clientVars>>

\* ------------------------------------------------------------------ proof generation
\* A Solana address is the sequence of its characters.
ALPHABET ==
    <<"1", "2", "3", "4", "5", "6", "7", "8", "9",
      "A", "B", "C", "D", "E", "F", "G", "H", "J", "K", "L", "M", "N", "P", "Q",
      "R", "S", "T", "U", "V", "W", "X", "Y", "Z",
      "a", "b", "c", "d", "e", "f", "g", "h", "i", "j", "k", "m", "n", "o", "p",
      "q", "r", "s", "t", "u", "v", "w", "x", "y", "z">>

\* ALPHABET_MAP.get(char)
AlphabetValue(char) == (CHOOSE k \in DOMAIN ALPHABET : ALPHABET[k] = char) - 1

IsBase58(str) == \A k \in DOMAIN str : \E a \in DOMAIN ALPHABET : ALPHABET[a] = str[k]

RECURSIVE Base58Value(_, _)
\* result = result * 58 + value, over the first n characters.
Base58Value(str, n) ==
    IF n = 0 THEN 0 ELSE Base58Value(str, n - 1) * 58 + AlphabetValue(str[n])

RECURSIVE BytesOf(_)
\* while (result > 0) bytes.unshift(result & 0xff), result >>= 8
BytesOf(result) ==
    IF result = 0 THEN <<>> ELSE Append(BytesOf(result \div 256), result % 256)

RECURSIVE LeadingOnes(_, _)
LeadingOnes(str, k) ==
    IF k > Len(str) \/ str[k] # "1" THEN 0 ELSE 1 + LeadingOnes(str, k + 1)

\* decodeBase58: the bytes, one zero byte in front per leading '1'.
decodeBase58(str) ==
    [k \in 1..LeadingOnes(str, 1) |-> 0] \o BytesOf(Base58Value(str, Len(str)))

RECURSIVE bufferToBigInt(_)
\* result = (result << 8) | buffer[i]
bufferToBigInt(buffer) ==
    IF buffer = <<>> THEN 0
    ELSE bufferToBigInt(SubSeq(buffer, 1, Len(buffer) - 1)) * 256 + buffer[Len(buffer)]

\* addressToBigInt; throws where decodeBase58 throws.
addressToBigInt(address) == Fe(bufferToBigInt(decodeBase58(address)))

Addresses == {<<"1", "1">>, <<"2">>, <<"0">>}

AllBinary(pathIndices) == \A k \in DOMAIN pathIndices : pathIndices[k] \in {0, 1}

RECURSIVE MerkleTreeChecker(_, _, _, _)
\* merkleTree.circom: levelHashers[k-1].root for binary path indices
\* (DualMux swaps the pair when s = 1).
MerkleTreeChecker(leaf, pathElements, pathIndices, k) ==
    IF k = 0 THEN leaf
    ELSE LET cur == MerkleTreeChecker(leaf, pathElements, pathIndices, k - 1)
         IN  IF pathIndices[k] = 0 THEN Poseidon(cur, pathElements[k])
             ELSE Poseidon(pathElements[k], cur)

\* A leaf index signal that is never accumulated.
CircuitLeafIndexZero(pathIndices, k) == 0

RECURSIVE CircuitLeafIndex(_, _)
\* leafIndex[i + 1] <== leafIndex[i] + pathIndices[i] * (1 << i)
CircuitLeafIndex(pathIndices, k) ==
    IF k = 0 THEN 0
    ELSE CircuitLeafIndex(pathIndices, k - 1) + pathIndices[k] * Pow2(k - 1)

\* template Withdraw(levels): the witness has levels path elements and path
\* indices, and every constraint of the circuit holds for the inputs.
WithdrawOf(lv, in) ==
    /\ Len(in.pathElements) = lv
    /\ Len(in.pathIndices) = lv
    /\ AllBinary(in.pathIndices)
    /\ in.root = MerkleTreeChecker(Commitment(in.secret, in.nullifier),
                                   in.pathElements, in.pathIndices, lv)
    /\ in.nullifierHash = NullifierHash(in.nullifier, CircuitLeafIndex(in.pathIndices, lv))

\* component main = Withdraw(levels), at the depth of the prover runs.
WithdrawSatisfied(in) == WithdrawOf(CircuitLevels, in)

\* Humanship(levels): the witness has levels path elements and path indices,
\* and every constraint of the circuit holds for the inputs.
HumanshipSatisfied(in) ==
    /\ Len(in.pathElements) = CircuitLevels
    /\ Len(in.pathIndices) = CircuitLevels
    /\ AllBinary(in.pathIndices)
    /\ in.root = MerkleTreeChecker(Poseidon(in.secret, in.identityNullifier),
                                   in.pathElements, in.pathIndices, CircuitLevels)
    /\ in.nullifierHash = Poseidon(in.identityNullifier, in.externalNullifier)

\* snarkjs.groth16.fullProve: throws when the artifacts cannot be loaded or the
\* witness does not satisfy the circuit, and else gives a proof.
fullProve(satisfied, artifacts, publicSignals) ==
    IF artifacts /\ satisfied
    THEN [threw |-> FALSE, proof |-> "groth16", publicSignals |-> publicSignals]
    ELSE [threw |-> TRUE, proof |-> "none", publicSignals |-> <<>>]

\* generateMockProof: the fixed proof object and the public signals of the inputs.
generateMockProof(in) ==
    [threw |-> FALSE, proof |-> "mock",
     publicSignals |-> <<in.root, in.nullifierHash, addressToBigInt(in.recipient),
                         addressToBigInt(in.relayer), in.fee>>]

\* generateMockHumanshipProof
generateMockHumanshipProof(in) ==
    [threw |-> FALSE, proof |-> "mock",
     publicSignals |-> <<in.root, in.nullifierHash, in.externalNullifier, in.signalHash>>]

Thrown == [threw |-> TRUE, proof |-> "none", publicSignals |-> <<>>]

\* generateWithdrawProof: addressToBigInt runs before the try block; whatever
\* the try block throws is caught and answered with the mock proof.
generateWithdrawProofOf(lv, in, artifacts) ==
    IF ~IsBase58(in.recipient) \/ ~IsBase58(in.relayer) THEN Thrown
    ELSE LET r == fullProve(WithdrawOf(lv, in), artifacts,
                            <<in.root, in.nullifierHash, addressToBigInt(in.recipient),
                              addressToBigInt(in.relayer), in.fee>>)
         IN  IF r.threw THEN generateMockProof(in) ELSE r

\* generateWithdrawProof with the artifacts of the circuit of depth CircuitLevels.
generateWithdrawProof(in, artifacts) == generateWithdrawProofOf(CircuitLevels, in, artifacts)

\* generateHumanshipProof
generateHumanshipProof(in, artifacts) ==
    LET r == fullProve(HumanshipSatisfied(in), artifacts,
                       <<in.root, in.nullifierHash, in.externalNullifier, in.signalHash>>)
    IN  IF r.threw THEN generateMockHumanshipProof(in) ELSE r

NotProving ==
    [fn |-> "none", inputs |-> <<>>, satisfied |-> FALSE, artifacts |-> FALSE, result |-> Thrown]

\* Siblings handed to the prover: plain values, or the commitment of a deposit.
Paths == [1..CircuitLevels -> Values \cup {Commitment(Fe(0), Fe(0))}]

PathIndexChoices == [1..CircuitLevels -> 0..MaxPathIndex]

\* The roots handed to the prover: the one the first CircuitLevels entries of
\* the path lead to, or zero.
RootChoices(leaf, pathElements, pathIndices) ==
    {Fe(0)} \cup (IF Len(pathIndices) >= CircuitLevels /\ AllBinary(pathIndices)
                  THEN {MerkleTreeChecker(leaf, pathElements, pathIndices, CircuitLevels)}
                  ELSE {})

\* The path elements and path indices handed to generateHumanshipProof: of the
\* depth of the circuit, one entry longer, or empty as proveHumanity passes them.
HumanshipPaths ==
    (Paths \X PathIndexChoices) \cup
    {<<Append(pathElements, Fe(0)), Append(pathIndices, 0)>> :
         pathElements \in Paths, pathIndices \in PathIndexChoices} \cup
    {<<<<>>, <<>>>>}

GenerateWithdrawProof(artifacts) ==
    /\ proving = NotProving
    /\ \E secret \in Values, nullifier \in Values, pathElements \in Paths,
          pathIndices \in PathIndexChoices, recipient \in Addresses :
         \E root \in RootChoices(Commitment(secret, nullifier), pathElements, pathIndices),
            nullifierHash \in {Fe(0), NullifierHash(nullifier,
                                          CircuitLeafIndex(pathIndices, CircuitLevels))} :
           LET in == [root |-> root, nullifierHash |-> nullifierHash,
                      recipient |-> recipient, relayer |-> <<"1", "1">>, fee |-> Fe(0),
                      secret |-> secret, nullifier |-> nullifier,
                      pathElements |-> pathElements, pathIndices |-> pathIndices]
           IN  /\ proving' = [fn |-> "generateWithdrawProof", inputs |-> in,
                              satisfied |-> WithdrawSatisfied(in),
                              artifacts |-> artifacts,
                              result |-> generateWithdrawProof(in, artifacts)]
               /\ UNCHANGED <<treeVars, lastOp, calls, stealthVars, nullifierHashes, clientVars>>

GenerateHumanshipProof(artifacts) ==
    /\ proving = NotProving
    /\ \E secret \in Values, identityNullifier \in Values, externalNullifier \in Values,
          path \in HumanshipPaths :
         \E root \in RootChoices(Poseidon(secret, identityNullifier), path[1], path[2]),
            nullifierHash \in {Fe(0)} \cup
                {generateExternalNullifierHash(identityNullifier, e) : e \in Values} :
           LET in == [root |-> root, nullifierHash |-> nullifierHash,
                      externalNullifier |-> externalNullifier, signalHash |-> Fe(0),
                      secret |-> secret, identityNullifier |-> identityNullifier,
                      pathElements |-> path[1], pathIndices |-> path[2]]
           IN  /\ proving' = [fn |-> "generateHumanshipProof", inputs |-> in,
                              satisfied |-> HumanshipSatisfied(in),
                              artifacts |-> artifacts,
                              result |-> generateHumanshipProof(in, artifacts)]
               /\ UNCHANGED <<treeVars, lastOp, calls, stealthVars, nullifierHashes, clientVars>>

\* ------------------------------------------------------------------ stealth addresses
\* Byte arrays are terms: what they were computed from.  SHA-256 and
\* ed25519.getPublicKey are ideal (equal outputs only for equal inputs).

\* randomBytes(32), the n-th possible outcome.
Raw(n) == [alg |-> "raw", arg |-> <<n>>]

\* ed25519.getPublicKey(privkey)
getPublicKey(privkey) == [alg |-> "ed25519.getPublicKey", arg |-> <<privkey>>]

\* sha256 of the concatenation of the given byte arrays.
sha256(parts) == [alg |-> "sha256", arg |-> parts]

RECURSIVE Weight(_)
\* A number read off a byte array, from which single bytes of a digest are taken.
Weight(t) ==
    IF t.alg = "raw" THEN t.arg[1]
    ELSE IF t.alg = "ed25519.getPublicKey" THEN Weight(t.arg[1]) + 1
    ELSE IF Len(t.arg) = 1 THEN Weight(t.arg[1]) + 2
    ELSE Weight(t.arg[1]) * Weight(t.arg[2])

\* hash[0] of a 32-byte digest.
FirstByte(digest) == Weight(digest) % 256

\* computeSharedSecret: sha256(privkey || pubkey).
computeSharedSecret(privkey, pubkey) == sha256(<<privkey, pubkey>>)

\* A view tag that is the same for every shared secret.
computeViewTagConstant(sharedSecret) == 0

\* computeViewTag: sha256(sharedSecret)[0].
computeViewTag(sharedSecret) == FirstByte(sha256(<<sharedSecret>>))

\* Byte-wise XOR of 32-byte arrays, as the set of arrays that do not cancel.
Xor(a, b) == (a \cup b) \ (a \cap b)

\* computeStealthPubkey: spendPubkey[i] ^ sha256(sharedSecret)[i] for each byte.
computeStealthPubkey(spendPubkey, sharedSecret) ==
    Xor({spendPubkey}, {sha256(<<sharedSecret>>)})

\* deriveStealthPrivateKey: byte-wise sum with carry of spendPrivkey and
\* sha256(sharedSecret), the carry out of byte 0 dropped.
deriveStealthPrivateKey(spendPrivkey, sharedSecret) ==
    [alg |-> "add mod 2^256", arg |-> <<spendPrivkey, sha256(<<sharedSecret>>)>>]

\* new Uint8Array(32)
KeyLength == 32

\* The loop of deriveStealthPrivateKey (bytes 1-based, byte KeyLength least
\* significant): sum = a[i] + b[i] + carry, result[i] = sum & 0xff,
\* carry = sum >> 8.  carry[i] is the carry out of byte i.
AddBytes(a, b) ==
    LET carry[i \in 1..(KeyLength + 1)] ==
            IF i > KeyLength THEN 0 ELSE (a[i] + b[i] + carry[i + 1]) \div 256
    IN  [bytes |-> [i \in 1..KeyLength |-> (a[i] + b[i] + carry[i + 1]) % 256],
         carry |-> carry[1]]

\* deriveStealthPrivateKey on the bytes of spendPrivkey and of
\* secretHash = sha256(sharedSecret): the result array; the last carry is dropped.
deriveStealthPrivateKeyBytes(spendPrivkey, secretHash) ==
    AddBytes(spendPrivkey, secretHash).bytes

\* generateStealthMetaAddress with randomBytes giving Raw(s) and then Raw(v).
generateStealthMetaAddress(s, v) ==
    [metaAddress |-> [spendPubkey |-> getPublicKey(Raw(s)),
                      viewPubkey |-> getPublicKey(Raw(v))],
     spendPrivkey |-> Raw(s),
     viewPrivkey |-> Raw(v)]

\* generateStealthAddress(metaAddress) with randomBytes giving Raw(e).
generateStealthAddress(metaAddress, e) ==
    LET ephemeralPrivkey == Raw(e)
        sharedSecret == computeSharedSecret(ephemeralPrivkey, metaAddress.viewPubkey)
    IN  [ephemeralPubkey |-> getPublicKey(ephemeralPrivkey),
         stealthAddress |-> computeStealthPubkey(metaAddress.spendPubkey, sharedSecret),
         viewTag |-> computeViewTag(sharedSecret)]

\* The StealthAnnouncement published for a generated stealth address, with the
\* time of its publication.
Announcement(generated, timestamp) ==
    [ephemeralPubkey |-> generated.ephemeralPubkey,
     stealthAddress |-> generated.stealthAddress,
     viewTag |-> generated.viewTag,
     timestamp |-> timestamp]

Timestamps == 0..MaxTimestamp

\* An arraysEqual that compares only the lengths (all arrays here have 32 bytes).
arraysEqualLengthOnly(a, b) == TRUE

\* arraysEqual: same length and the same byte at every index.
arraysEqual(a, b) == a = b

\* An ephemeralPubkey array of more than 32 bytes.
Oversized == [alg |-> "33 bytes", arg |-> <<>>]

\* An announcement without a stealthAddress (the field is undefined).
Missing == {[alg |-> "undefined", arg |-> <<>>]}

\* pubkey.length
ByteLength(t) == IF t = Oversized THEN 33 ELSE 32

\* combined.set(pubkey, 32) on the 64-byte array throws a RangeError when the
\* source does not fit.
SharedSecretThrows(pubkey) == 32 + ByteLength(pubkey) > 64

ScanThrown == [threw |-> TRUE, results |-> <<>>, steps |-> <<>>]

RECURSIVE ScanFrom(_, _, _)
\* scanAnnouncements' loop from announcement i on; an exception thrown in the
\* loop body leaves the function, nothing catches it.  steps lists, for every
\* announcement the loop reached, the functions it called, in order.
ScanFrom(k, anns, i) ==
    IF i > Len(anns) THEN [threw |-> FALSE, results |-> <<>>, steps |-> <<>>]
    ELSE LET a == anns[i]
             sharedSecret == computeSharedSecret(k.viewPrivkey, a.ephemeralPubkey)
             rest == ScanFrom(k, anns, i + 1)
             Skip(fns) == [rest EXCEPT !.steps = <<fns>> \o rest.steps]
             Throw(fns) == [ScanThrown EXCEPT !.steps = <<fns>>]
         IN  IF SharedSecretThrows(a.ephemeralPubkey)
             THEN Throw(<<"computeSharedSecret">>)
             ELSE IF computeViewTag(sharedSecret) # a.viewTag
             THEN Skip(<<"computeSharedSecret", "computeViewTag">>)
             ELSE IF a.stealthAddress = Missing
             THEN Throw(<<"computeSharedSecret", "computeViewTag",
                          "computeStealthPubkey">>)
             ELSE IF ~arraysEqual(computeStealthPubkey(k.metaAddress.spendPubkey,
                                                       sharedSecret),
                                  a.stealthAddress)
             THEN Skip(<<"computeSharedSecret", "computeViewTag",
                         "computeStealthPubkey", "arraysEqual">>)
             ELSE LET fns == <<"computeSharedSecret", "computeViewTag",
                                 "computeStealthPubkey", "arraysEqual",
                                 "deriveStealthPrivateKey">>
                  IN  IF rest.threw
                      THEN [ScanThrown EXCEPT !.steps = <<fns>> \o rest.steps]
                      ELSE [threw |-> FALSE,
                            results |->
                                <<[announcement |-> a,
                                   stealthPrivkey |->
                                       deriveStealthPrivateKey(k.spendPrivkey,
                                                               sharedSecret)]>>
                                \o rest.results,
                            steps |-> <<fns>> \o rest.steps]

\* scanAnnouncements(kit, announcements): what the loop returns or throws, and
\* the two arguments as the call leaves them (the function assigns to its own
\* results array only; the results refer to the announcement objects of the
\* list).
scanAnnouncements(k, anns) ==
    LET Left(r) == [threw |-> r.threw, results |-> r.results, steps |-> r.steps,
                    kit |-> k, announcements |-> anns]
    IN  Left(ScanFrom(k, anns, 1))

Keys == 0..MaxKey

MetaAddresses == {generateStealthMetaAddress(s, v).metaAddress : s \in Keys, v \in Keys}

NotScanned == [done |-> FALSE, threw |-> FALSE, results |-> <<>>, steps |-> <<>>]

StealthIdle ==
    /\ kit = generateStealthMetaAddress(0, 0)
    /\ announcements = <<>>
    /\ payments = <<>>
    /\ scanned = NotScanned
    /\ proving = NotProving
    /\ nullifierHashes = {}
    /\ ClientIdle

\* A sender pays to a meta-address and the announcement is published with
\* timestamp t; the list is in publication order, whatever the timestamps say.
Pay(metaAddress, e, t) ==
    /\ Len(announcements) < MaxAnnouncements
    /\ announcements' = Append(announcements,
                               Announcement(generateStealthAddress(metaAddress, e), t))
    /\ payments' = Append(payments, metaAddress)
    /\ scanned' = NotScanned
    /\ UNCHANGED <<treeVars, lastOp, calls, kit, proving, nullifierHashes, clientVars>>

Malformed(a) == a.ephemeralPubkey = Oversized \/ a.stealthAddress = Missing

\* The announcement of a payment to the kit, with one field damaged.
Damaged(e) ==
    LET a == Announcement(generateStealthAddress(kit.metaAddress, e), 0)
    IN  {[a EXCEPT !.ephemeralPubkey = Oversized], [a EXCEPT !.stealthAddress = Missing]}

\* An unparseable announcement is published; the list holds at most one.
PublishMalformed(a) ==
    /\ Len(announcements) < MaxAnnouncements
    /\ \A i \in DOMAIN announcements : ~Malformed(announcements[i])
    /\ announcements' = Append(announcements, a)
    /\ payments' = Append(payments, kit.metaAddress)
    /\ scanned' = NotScanned
    /\ UNCHANGED <<treeVars, lastOp, calls, kit, proving, nullifierHashes, clientVars>>

\* The receiver scans the published announcements.
Scan ==
    /\ LET Returned(r) ==
               /\ scanned' = [done |-> TRUE, threw |-> r.threw, results |-> r.results,
                              steps |-> r.steps]
               /\ kit' = r.kit
               /\ announcements' = r.announcements
       IN  Returned(scanAnnouncements(kit, announcements))
    /\ UNCHANGED <<treeVars, lastOp, calls, payments, proving, nullifierHashes, clientVars>>

\* ------------------------------------------------------------------ MerkleTree
RECURSIVE ZeroValuesUpTo(_)
\* initZeroValues: [0], then levels times push(prev * 2 + (i + 1)).
ZeroValuesUpTo(n) ==
    IF n = 0 THEN <<Fe(0)>>
    ELSE LET z == ZeroValuesUpTo(n - 1)
         IN  Append(z, Fe(z[n][1] * 2 + n))

initZeroValues(lv) == ZeroValuesUpTo(lv)

\* getZeroValue(level): zeroValues[level] ?? 0, for the given zeroValues array.
ZeroOf(zs, level) == IF level + 1 \in DOMAIN zs THEN zs[level + 1] ELSE Fe(0)

getZeroValue(level) == ZeroOf(zeroValues, level)

\* layers[0] of rebuildTree: a copy of the leaves padded with getZeroValue(0).
PadLeaves(lvs, lv, zs) ==
    [i \in 1..(IF Len(lvs) > Pow2(lv) THEN Len(lvs) ELSE Pow2(lv)) |->
        IF i <= Len(lvs) THEN lvs[i] ELSE ZeroOf(zs, 0)]

\* One pass of rebuildTree's inner loop: the parents of currentLayer.
NextLayer(ok, cur, level, zs) ==
    [j \in 1..((Len(cur) + 1) \div 2) |->
        poseidonHash(ok, cur[2 * j - 1],
                     IF 2 * j <= Len(cur) THEN cur[2 * j] ELSE ZeroOf(zs, level))]

RECURSIVE BuildLayers(_, _, _, _, _)
BuildLayers(ok, ls, level, lv, zs) ==
    IF level >= lv THEN ls
    ELSE BuildLayers(ok, Append(ls, NextLayer(ok, ls[level + 1], level, zs)),
                     level + 1, lv, zs)

\* rebuildTree run to completion with no other call in between.
rebuildTree(ok, lvs, lv, zs) == BuildLayers(ok, <<PadLeaves(lvs, lv, zs)>>, 0, lv, zs)

\* get root(): zeroValues[levels] while no layer exists, else the last layer's head.
RootOf(ls, lv, zs) == IF Len(ls) = 0 THEN ZeroOf(zs, lv) ELSE ls[Len(ls)][1]

root == RootOf(layers, levels, zeroValues)

leafCount == Len(leaves)

NoProof == [ok |-> FALSE, root |-> Fe(0), pathElements |-> <<>>, pathIndices |-> <<>>,
            leaf |-> Fe(0), leafIndex |-> 0, error |-> "Leaf index out of bounds"]

\* this.layers[level][siblingIndex] when this.layers[level] is undefined.
NoLayer == [NoProof EXCEPT !.error = "TypeError"]

\* A current index that is never halved.
IndexAtLeaf(leafIndex, level) == leafIndex

\* Index of the node above leafIndex at the given level (repeated Math.floor(i/2)).
IndexAt(leafIndex, level) == leafIndex \div Pow2(level)

\* A sibling lookup that forgets the right-child case.
SiblingIndexAlwaysRight(cur) == cur + 1

\* const siblingIndex = isLeft ? currentIndex + 1 : currentIndex - 1
SiblingIndex(cur) == IF cur % 2 = 0 THEN cur + 1 ELSE cur - 1

\* getProof(leafIndex) on a tree with the given leaves, layers, levels and
\* zeroValues: throws out of bounds, and throws a TypeError when a layer it reads
\* does not exist; otherwise the siblings and direction bits, leaf to root.
getProofOf(lvs, ls, lv, zs, leafIndex) ==
    IF leafIndex < 0 \/ leafIndex >= Len(lvs) THEN NoProof
    ELSE IF \E l \in 0..(lv - 1) : l + 1 > Len(ls) THEN NoLayer
    ELSE [ok |-> TRUE,
          root |-> RootOf(ls, lv, zs),
          pathElements |->
              [l \in 1..lv |->
                  LET s == SiblingIndex(IndexAt(leafIndex, l - 1))
                  IN  IF s + 1 \in DOMAIN ls[l] THEN ls[l][s + 1]
                      ELSE ZeroOf(zs, l - 1)],
          pathIndices |->
              [l \in 1..lv |-> IF IndexAt(leafIndex, l - 1) % 2 = 0 THEN 0 ELSE 1],
          leaf |-> lvs[leafIndex + 1],
          leafIndex |-> leafIndex]

getProof(leafIndex) == getProofOf(leaves, layers, levels, zeroValues, leafIndex)

RECURSIVE HashUpIgnoringDirection(_, _, _)
\* A verifier that always puts the running hash on the left.
HashUpIgnoringDirection(p, i, cur) ==
    IF i > Len(p.pathElements) THEN cur
    ELSE HashUpIgnoringDirection(p, i + 1, H(cur, p.pathElements[i]))

RECURSIVE HashUp(_, _, _)
\* verifyMerkleProof's loop from step i on, with currentHash = cur.
HashUp(p, i, cur) ==
    IF i > Len(p.pathElements) THEN cur
    ELSE HashUp(p, i + 1,
                IF i \in DOMAIN p.pathIndices /\ p.pathIndices[i] = 0
                THEN H(cur, p.pathElements[i])
                ELSE H(p.pathElements[i], cur))

verifyMerkleProof(p) == HashUp(p, 1, p.leaf) = p.root

\* MerkleTree.verifyProof: return verifyMerkleProof(proof)
verifyProof(p) == verifyMerkleProof(p)

\* ------------------------------------------------------------------ calls
NoOp == [op |-> "none", args |-> <<>>, ok |-> TRUE, ret |-> <<>>, error |-> "",
         before |-> [leaves |-> <<>>, layers |-> <<>>, root |-> Fe(0)]]

Snapshot == [leaves |-> leaves, layers |-> layers, root |-> root]

\* An index read after the push instead of before it.
InsertIndexAfterPush(lvs) == Len(lvs) + 1

\* const index = this.leaves.length
InsertIndex(lvs) == Len(lvs)

\* An unshift in place of the push.
PushLeafFront(lvs, c) == <<c>> \o lvs

\* A push that appends the commitment twice.
PushLeafTwice(lvs, c) == Append(Append(lvs, c), c)

\* this.leaves.push(commitment)
PushLeaf(lvs, c) == Append(lvs, c)

\* A capacity check that is off by one.
InsertFullOffByOne(index, lv) == index > Pow2(lv)

\* if (index >= 2 ** this.levels) throw new Error('Tree is full')
InsertFull(index, lv) == index >= Pow2(lv)

\* if (startIndex + commitments.length > 2 ** this.levels) throw ...
BatchTooLarge(startIndex, n, lv) == startIndex + n > Pow2(lv)

\* await tree.getProof(leafIndex): reads only, and has no await inside.
GetProof(i) ==
    /\ lastOp' = [op |-> "getProof", args |-> <<i>>, ok |-> getProof(i).ok,
                  ret |-> IF getProof(i).ok THEN <<getProof(i)>> ELSE <<>>,
                  error |-> IF getProof(i).ok THEN "" ELSE getProof(i).error,
                  before |-> Snapshot]
    /\ UNCHANGED <<levels, leaves, layers, zeroValues, circomlibjs, calls, stealthVars, proving, nullifierHashes, clientVars>>

Batches == UNION {[1..n -> Values] : n \in 0..MaxBatch}

\* new MerkleTree(levels)
InitTree ==
    /\ levels \in LevelChoices
    /\ leaves = <<>>
    /\ layers = <<>>
    /\ zeroValues = initZeroValues(levels)
    /\ circomlibjs \in BOOLEAN
    /\ lastOp = NoOp

\* ------------------------------------------------------------------ insert and insertBatch
\* The callers of insert / insertBatch: each has at most one call in flight.
CallIds == 1..MaxCalls

\* A caller's call: where it stands in rebuildTree (level, i, currentLayer,
\* nextLayer are rebuildTree's locals), what it was given and the tree it found.
IdleCall == [pc |-> "idle", op |-> "none", commitment |-> Fe(0), batch |-> <<>>,
             index |-> 0, level |-> 0, i |-> 0,
             currentLayer |-> <<>>, nextLayer |-> <<>>, before |-> NoOp.before]

NoCalls == [id \in CallIds |-> IdleCall]

\* No insert or insertBatch is suspended in an await.
Quiescent == \A id \in CallIds : calls[id].pc # "hashing"

\* tree.insert(commitment) from the push to the first await, on a tree with the
\* given leaves: the call's index and rebuildTree's locals when it suspends in
\* its first poseidonHash.
InsertCall(lvs, c, lv, zs, snapshot) ==
    [pc |-> "hashing", op |-> "insert", commitment |-> c, batch |-> <<>>,
     index |-> InsertIndex(lvs), level |-> 0, i |-> 0,
     currentLayer |-> PadLeaves(PushLeaf(lvs, c), lv, zs),
     nextLayer |-> <<>>, before |-> snapshot]

\* tree.insert(commitment) up to its first await: the index is read; a full tree
\* throws; else the leaf is pushed, rebuildTree replaces this.layers by
\* [padded leaves], takes layers[0] as currentLayer and suspends in the first
\* poseidonHash.
Insert(id, c) ==
    /\ calls[id].pc # "hashing"
    /\ LET index == InsertIndex(leaves)
       IN  IF InsertFull(index, levels)
           THEN /\ calls' = [calls EXCEPT ![id] =
                       [IdleCall EXCEPT !.pc = "full", !.op = "insert",
                                        !.commitment = c, !.before = Snapshot]]
                /\ lastOp' = [op |-> "insert", args |-> <<c>>, ok |-> FALSE,
                              ret |-> <<>>, error |-> "Tree is full",
                              before |-> Snapshot]
                /\ UNCHANGED <<leaves, layers>>
           ELSE /\ leaves' = PushLeaf(leaves, c)
                /\ layers' = <<PadLeaves(leaves', levels, zeroValues)>>
                /\ calls' = [calls EXCEPT ![id] =
                       InsertCall(leaves, c, levels, zeroValues, Snapshot)]
                /\ UNCHANGED lastOp
    /\ UNCHANGED <<levels, zeroValues, circomlibjs, stealthVars, proving, nullifierHashes, clientVars>>

\* tree.insertBatch(commitments) up to its first await: too large a batch throws;
\* else the leaves are pushed and rebuildTree suspends as in insert.
InsertBatch(id, cs) ==
    /\ calls[id].pc # "hashing"
    /\ LET startIndex == Len(leaves)
       IN  IF BatchTooLarge(startIndex, Len(cs), levels)
           THEN /\ calls' = [calls EXCEPT ![id] =
                       [IdleCall EXCEPT !.pc = "full", !.op = "insertBatch",
                                        !.batch = cs, !.before = Snapshot]]
                /\ lastOp' = [op |-> "insertBatch", args |-> cs, ok |-> FALSE,
                              ret |-> <<>>,
                              error |-> "Too many commitments for tree capacity",
                              before |-> Snapshot]
                /\ UNCHANGED <<leaves, layers>>
           ELSE /\ leaves' = leaves \o cs
                /\ layers' = <<PadLeaves(leaves', levels, zeroValues)>>
                /\ calls' = [calls EXCEPT ![id] =
                       [pc |-> "hashing", op |-> "insertBatch", commitment |-> Fe(0),
                        batch |-> cs, index |-> startIndex,
                        level |-> 0, i |-> 0, currentLayer |-> layers'[1],
                        nextLayer |-> <<>>, before |-> Snapshot]]
                /\ UNCHANGED lastOp
    /\ UNCHANGED <<levels, zeroValues, circomlibjs, stealthVars, proving, nullifierHashes, clientVars>>

\* What the call resolves with: index, or commitments.map((_, i) => startIndex + i).
CallResolved(k) ==
    [op |-> k.op,
     args |-> IF k.op = "insert" THEN <<k.commitment>> ELSE k.batch,
     ok |-> TRUE,
     ret |-> IF k.op = "insert" THEN <<k.index>>
             ELSE [j \in 1..Len(k.batch) |-> k.index + j - 1],
     error |-> "", before |-> k.before]

\* The call rejects: currentLayer.length of an undefined this.layers[level].
CallRejected(k) == [CallResolved(k) EXCEPT !.ok = FALSE, !.ret = <<>>, !.error = "TypeError"]

\* The continuation of call k after one awaited poseidonHash inside rebuildTree,
\* on a tree whose this.layers is ls: push the parent; at the end of a layer push
\* nextLayer onto whatever this.layers is now and read this.layers[level + 1] as
\* the next currentLayer (a TypeError if it does not exist); after the last level
\* the call resolves.
RebuildStep(ok, k, ls, lv, zs) ==
    LET cur == k.currentLayer
        parent == poseidonHash(ok, cur[k.i + 1],
                               IF k.i + 2 <= Len(cur) THEN cur[k.i + 2]
                               ELSE ZeroOf(zs, k.level))
        nl == Append(k.nextLayer, parent)
        pushed == Append(ls, nl)
        settled == [k EXCEPT !.nextLayer = <<>>, !.currentLayer = <<>>, !.i = 0,
                             !.level = k.level + 1]
    IN  IF k.i + 2 < Len(cur)
        THEN [call |-> [k EXCEPT !.nextLayer = nl, !.i = k.i + 2], layers |-> ls]
        ELSE IF k.level + 1 >= lv
        THEN [call |-> [settled EXCEPT !.pc = "done"], layers |-> pushed]
        ELSE IF k.level + 2 > Len(pushed)
        THEN [call |-> [settled EXCEPT !.pc = "typeerror"], layers |-> pushed]
        ELSE [call |-> [k EXCEPT !.level = k.level + 1, !.i = 0,
                                 !.currentLayer = pushed[k.level + 2],
                                 !.nextLayer = <<>>],
              layers |-> pushed]

\* One continuation of a suspended insert / insertBatch of the tree.
InsertResume(id) ==
    /\ calls[id].pc = "hashing"
    /\ LET step == RebuildStep(circomlibjs, calls[id], layers, levels, zeroValues)
       IN  /\ layers' = step.layers
           /\ calls' = [calls EXCEPT ![id] = step.call]
           /\ lastOp' = IF step.call.pc = "done" THEN CallResolved(calls[id])
                        ELSE IF step.call.pc = "typeerror" THEN CallRejected(calls[id])
                        ELSE lastOp
    /\ UNCHANGED <<levels, leaves, zeroValues, circomlibjs, stealthVars, proving, nullifierHashes, clientVars>>

\* The explored runs append at most MaxLeaves leaves; a call the tree rejects for
\* capacity is always explored.
WithinRun(n) == Len(leaves) + n <= MaxLeaves \/ Len(leaves) + n > Pow2(levels)

\* ------------------------------------------------------------------ overlapping calls
\* Callers that do not wait for each other: each makes one call, which may start
\* while the others' calls are suspended.
InitAsync == InitTree /\ calls = NoCalls /\ StealthIdle

NextAsync ==
    \/ \E id \in CallIds, c \in Values : calls[id].pc = "idle" /\ Insert(id, c)
    \/ \E id \in CallIds, cs \in Batches : calls[id].pc = "idle" /\ InsertBatch(id, cs)
    \/ \E id \in CallIds : InsertResume(id)

SpecAsync == InitAsync /\ [][NextAsync]_vars

\* ------------------------------------------------------------------ awaited calls
\* One caller that awaits each insert / insertBatch before its next one; the
\* tree can be read (getProof) at any point, also while a call is suspended.
Init == InitTree /\ calls = NoCalls /\ StealthIdle

Next ==
    \/ \E c \in Values : WithinRun(1) /\ Insert(1, c)
    \/ \E cs \in Batches : WithinRun(Len(cs)) /\ InsertBatch(1, cs)
    \/ InsertResume(1)
    \/ \E i \in 0..Len(leaves) : GetProof(i)

Spec == Init /\ [][Next]_vars

\* ------------------------------------------------------------------ stealth payments
InitStealth ==
    /\ levels = 1 /\ leaves = <<>> /\ layers = <<>> /\ zeroValues = initZeroValues(1)
    /\ circomlibjs = TRUE /\ lastOp = NoOp /\ calls = NoCalls
    /\ \E s \in Keys, v \in Keys : kit = generateStealthMetaAddress(s, v)
    /\ announcements = <<>>
    /\ payments = <<>>
    /\ scanned = NotScanned
    /\ proving = NotProving
    /\ nullifierHashes = {}
    /\ ClientIdle

NextStealth ==
    \/ \E m \in MetaAddresses, e \in Keys, t \in Timestamps : Pay(m, e, t)
    \/ \E e \in Keys : \E a \in Damaged(e) : PublishMalformed(a)
    \/ Scan

SpecStealth == InitStealth /\ [][NextStealth]_vars

\* ------------------------------------------------------------------ nullifier hashing
InitNullifier ==
    /\ levels = 1 /\ leaves = <<>> /\ layers = <<>> /\ zeroValues = initZeroValues(1)
    /\ circomlibjs \in BOOLEAN
    /\ lastOp = NoOp /\ calls = NoCalls
    /\ StealthIdle

NextNullifier ==
    \/ \E n \in Values, i \in LeafIndexChoices : GenerateNullifierHash(n, i)
    \/ \E n \in Values, i \in LeafIndexChoices : ComputeNullifierHash(n, i)

SpecNullifier == InitNullifier /\ [][NextNullifier]_vars

\* ------------------------------------------------------------------ proving
InitProver ==
    /\ levels = 1 /\ leaves = <<>> /\ layers = <<>> /\ zeroValues = initZeroValues(1)
    /\ circomlibjs = TRUE /\ lastOp = NoOp /\ calls = NoCalls
    /\ StealthIdle

NextProver ==
    \/ \E artifacts \in BOOLEAN : GenerateWithdrawProof(artifacts)
    \/ \E artifacts \in BOOLEAN : GenerateHumanshipProof(artifacts)

SpecProver == InitProver /\ [][NextProver]_vars

\* ------------------------------------------------------------------ stealth key derivation
ConstantBytes(b) == [k \in 1..KeyLength |-> b]

\* The order of the ed25519 group,
\* 2^252 + 27742317777372353535851937790883648493, big-endian.
GroupOrder ==
    <<16, 0, 0, 0, 0, 0, 0, 0, 0, 0, 0, 0, 0, 0, 0, 0,
      20, 222, 249, 222, 162, 247, 156, 214, 88, 18, 99, 26, 92, 245, 211, 237>>

\* 32-byte arrays given to deriveStealthPrivateKey.
KeySamples ==
    {ConstantBytes(0), ConstantBytes(1), ConstantBytes(15), ConstantBytes(16),
     ConstantBytes(128), ConstantBytes(255), GroupOrder,
     [GroupOrder EXCEPT ![KeyLength] = 236],
     [ConstantBytes(0) EXCEPT ![KeyLength] = 1],
     [ConstantBytes(0) EXCEPT ![1] = 16]}

DeriveStealthPrivateKey(spendPrivkey, secretHash) ==
    /\ lastOp = NoOp
    /\ lastOp' = [op |-> "deriveStealthPrivateKey",
                  args |-> <<spendPrivkey, secretHash>>,
                  ok |-> TRUE,
                  ret |-> deriveStealthPrivateKeyBytes(spendPrivkey, secretHash),
                  error |-> "",
                  before |-> Snapshot]
    /\ UNCHANGED <<treeVars, calls, stealthVars, proving, nullifierHashes, clientVars>>

InitDerive == InitProver

NextDerive ==
    \E spendPrivkey \in KeySamples, secretHash \in KeySamples :
        DeriveStealthPrivateKey(spendPrivkey, secretHash)

SpecDerive == InitDerive /\ [][NextDerive]_vars

\* ------------------------------------------------------------------ ShadowClient
\* randomBytes(31) secrets and nullifiers (never 0 here, so that a secret is
\* told apart from the constant fee and root values).
SecretChoices == {Fe(MaxVal + 1), Fe(MaxVal + 2)}

\* randomBytes(31) twice: the (secret, nullifier) pairs generateCommitment draws.
RandomPairs == {<<Fe(MaxVal + 1), Fe(MaxVal + 2)>>, <<Fe(MaxVal + 2), Fe(MaxVal + 1)>>}

\* generateCommitment with randomBytes giving secret and nullifier; leafIndex is
\* absent (<<>>) until the deposit is inserted.
generateCommitment(secret, nullifier) ==
    [secret |-> secret, nullifier |-> nullifier,
     commitment |-> H(secret, nullifier),
     nullifierHash |-> H(nullifier, Fe(0)),
     leafIndex |-> <<>>]

\* generateNote: the JSON object {s, n, c, i} behind the shadow-note-v1 prefix.
generateNote(deposit) ==
    [s |-> deposit.secret, n |-> deposit.nullifier, c |-> deposit.commitment,
     i |-> deposit.leafIndex]

\* parseNote: nullifierHash is set to 0.
parseNote(note) ==
    [secret |-> note.s, nullifier |-> note.n, commitment |-> note.c,
     nullifierHash |-> Fe(0), leafIndex |-> note.i]

\* fetchDepositEvents: return []
fetchDepositEvents == <<>>

\* The zeroValues of a client's MerkleTree(config.merkleTreeLevels).
ClientZeros == initZeroValues(ClientLevels)

RECURSIVE InsertEvents(_, _, _)
\* syncMerkleTree's loop: insert the commitments of events k.. into the tree;
\* insert throws 'Tree is full' on a full tree and the loop ends there.
InsertEvents(tree, events, k) ==
    IF k > Len(events) THEN [tree |-> tree, ok |-> TRUE]
    ELSE IF InsertFull(InsertIndex(tree.leaves), ClientLevels)
    THEN [tree |-> tree, ok |-> FALSE]
    ELSE LET lvs == PushLeaf(tree.leaves, events[k])
         IN  InsertEvents([leaves |-> lvs,
                           layers |-> rebuildTree(circomlibjs, lvs, ClientLevels,
                                                  ClientZeros)],
                          events, k + 1)

\* syncMerkleTree from the return of fetchDepositEvents() on: a new MerkleTree
\* filled from the events.
syncMerkleTree == InsertEvents(NewTree, fetchDepositEvents, 1)

\* A deposit instruction that carries the secret.
DepositDataWithSecret(deposit) == <<deposit.secret>>

\* deposit(): commitmentBytes = bigIntToBuffer(deposit.commitment, 32), the data
\* of the deposit instruction after its tag byte.
DepositData(deposit) == <<deposit.commitment>>

\* buildDepositInstruction: data = [0, ...commitment]
buildDepositInstruction(commitment) == [instruction |-> "deposit", data |-> commitment]

\* buildRegisterIdentityInstruction: data = [3, ...commitment]
buildRegisterIdentityInstruction(commitment) ==
    [instruction |-> "registerIdentity", data |-> commitment]

\* submitDirectWithdrawal: data = [1, piA, piB, piC, root, nullifierHash]
submitDirectWithdrawal(proof, rootValue, nullifierHash) ==
    [instruction |-> "withdraw", data |-> <<proof, rootValue, nullifierHash>>]

\* submitViaRelayer: POST {proof, publicSignals, recipient}
submitViaRelayer(proof, publicSignals, recipient) ==
    [instruction |-> "relayer", data |-> <<proof>> \o publicSignals \o <<recipient>>]

\* buildCreateStealthMetaAddressInstruction: data = [2, ...spendPubkey, ...viewPubkey]
buildCreateStealthMetaAddressInstruction(metaAddress) ==
    [instruction |-> "createStealthMetaAddress",
     data |-> <<metaAddress.spendPubkey, metaAddress.viewPubkey>>]

\* config.relayerUrl: set in client A's configuration, absent in client B's.
relayerUrl == [c \in ClientIds |-> c = "A"]

\* A call of a client that has settled.
ClientOp(op, args, ok, ret, error) ==
    [op |-> op, args |-> args, ok |-> ok, ret |-> ret, error |-> error,
     before |-> Snapshot]

\* connect(wallet)
Connect(c) ==
    /\ wallets' = [wallets EXCEPT ![c] = TRUE]
    /\ UNCHANGED <<treeVars, lastOp, calls, stealthVars, proving, nullifierHashes,
                   ledger, clients, notes, sent, pending>>

\* disconnect()
Disconnect(c) ==
    /\ wallets' = [wallets EXCEPT ![c] = FALSE]
    /\ UNCHANGED <<treeVars, lastOp, calls, stealthVars, proving, nullifierHashes,
                   ledger, clients, notes, sent, pending>>

\* The calls of the clients that have not settled.
InFlight ==
    Cardinality({x \in ClientIds \X {"deposit", "withdraw", "tx"} :
                    pending[x[1]][x[2]].pc # "idle"})

\* The deposits the pool has confirmed or may still confirm.
DepositsStarted ==
    Len(ledger) + Cardinality({c \in ClientIds :
                                  pending[c].deposit.pc \in {"preparing", "built", "sent"}})

\* deposit() on client c rejects.
DepositRejects(c, error) ==
    /\ pending' = [pending EXCEPT ![c].deposit = IdleDeposit]
    /\ lastOp' = ClientOp("deposit", <<c>>, FALSE, <<>>, error)

\* deposit() on client c up to its first await: the wallet check, then
\* generateCommitment() with randomBytes giving secret and nullifier.
Deposit(c, secret, nullifier) ==
    /\ pending[c].deposit.pc = "idle"
    /\ wallets[c] => DepositsStarted < MaxDeposits /\ InFlight < MaxInFlight
    /\ IF ~wallets[c]
       THEN /\ lastOp' = ClientOp("deposit", <<c>>, FALSE, <<>>,
                                  "Wallet not connected")
            /\ UNCHANGED pending
       ELSE /\ pending' = [pending EXCEPT ![c].deposit =
                   [IdleDeposit EXCEPT !.pc = "preparing", !.secret = secret,
                                       !.nullifier = nullifier,
                                       !.deposit = generateCommitment(secret, nullifier)]]
            /\ UNCHANGED lastOp
    /\ UNCHANGED <<treeVars, calls, stealthVars, proving, nullifierHashes, ledger,
                   clients, notes, sent, wallets>>

\* deposit() steps 2 and 3 up to the await of buildDepositInstruction:
\* getPoolState throws when the pool account is not found; this.wallet.publicKey
\* throws when the wallet was disconnected meanwhile.
DepositBuild(c, poolFound) ==
    /\ pending[c].deposit.pc = "preparing"
    /\ IF ~poolFound THEN DepositRejects(c, "Pool not found")
       ELSE IF ~wallets[c] THEN DepositRejects(c, "TypeError")
       ELSE /\ pending' = [pending EXCEPT ![c].deposit.pc = "built"]
            /\ UNCHANGED lastOp
    /\ UNCHANGED <<treeVars, calls, stealthVars, proving, nullifierHashes, ledger,
                   clients, notes, sent, wallets>>

\* deposit() step 4: the instruction is handed to sendAndConfirmTransaction
\* with the signers [this.wallet], whatever this.wallet is by now.
DepositSend(c) ==
    /\ pending[c].deposit.pc = "built"
    /\ sent' = sent \cup
           {buildDepositInstruction(DepositData(pending[c].deposit.deposit))}
    /\ pending' = [pending EXCEPT ![c].deposit.pc = "sent"]
    /\ UNCHANGED <<treeVars, lastOp, calls, stealthVars, proving, nullifierHashes,
                   ledger, clients, notes, wallets>>

\* The pool confirms the deposit transaction: it appends the commitment.
ConfirmDeposit(c) ==
    /\ pending[c].deposit.pc = "sent"
    /\ ledger' = Append(ledger, pending[c].deposit.deposit.commitment)
    /\ pending' = [pending EXCEPT ![c].deposit.pc = "confirmed",
                                  ![c].deposit.ledgerIndex = <<Len(ledger)>>]
    /\ UNCHANGED <<treeVars, lastOp, calls, stealthVars, proving, nullifierHashes,
                   clients, notes, sent, wallets>>

\* sendAndConfirmTransaction rejects: the pool appends nothing.
RejectDeposit(c) ==
    /\ pending[c].deposit.pc = "sent"
    /\ DepositRejects(c, "Transaction rejected")
    /\ UNCHANGED <<treeVars, calls, stealthVars, proving, nullifierHashes, ledger,
                   clients, notes, sent, wallets>>

\* deposit() step 5 up to the first await of this.merkleTree.insert: a full
\* local tree throws, else the commitment is pushed and rebuildTree suspends.
DepositInsert(c) ==
    /\ pending[c].deposit.pc = "confirmed"
    /\ LET tree == clients[c]
           commitment == pending[c].deposit.deposit.commitment
           lvs == PushLeaf(tree.leaves, commitment)
       IN  IF InsertFull(InsertIndex(tree.leaves), ClientLevels)
           THEN DepositRejects(c, "Tree is full") /\ UNCHANGED clients
           ELSE /\ clients' = [clients EXCEPT ![c] =
                       [leaves |-> lvs,
                        layers |-> <<PadLeaves(lvs, ClientLevels, ClientZeros)>>]]
                /\ pending' = [pending EXCEPT
                       ![c].deposit.pc = "hashing",
                       ![c].deposit.call = InsertCall(tree.leaves, commitment, ClientLevels,
                                                      ClientZeros, NoOp.before)]
                /\ UNCHANGED lastOp
    /\ UNCHANGED <<treeVars, calls, stealthVars, proving, nullifierHashes, ledger,
                   notes, sent, wallets>>

\* One continuation of the insert of deposit(), on the tree object the insert
\* was called on; when it resolves, the index is assigned to the deposit (kept
\* with the note as deposit), the note is built and deposit() resolves with
\* {signature, commitment, leafIndex, note}.
DepositRebuild(c) ==
    /\ pending[c].deposit.pc = "hashing"
    /\ LET d == pending[c].deposit
           tree == IF d.detached THEN d.tree ELSE clients[c]
           step == RebuildStep(circomlibjs, d.call, tree.layers, ClientLevels, ClientZeros)
           rebuilt == [tree EXCEPT !.layers = step.layers]
           withIndex == [d.deposit EXCEPT !.leafIndex = <<d.call.index>>]
       IN  /\ clients' = IF d.detached THEN clients ELSE [clients EXCEPT ![c] = rebuilt]
           /\ IF step.call.pc = "done"
              THEN /\ notes' = notes \cup
                          {[client |-> c, ledgerIndex |-> d.ledgerIndex[1],
                            deposit |-> withIndex,
                            note |-> generateNote(withIndex)]}
                   /\ pending' = [pending EXCEPT ![c].deposit = IdleDeposit]
                   /\ lastOp' = ClientOp("deposit", <<c>>, TRUE,
                                         <<[commitment |-> d.deposit.commitment,
                                            leafIndex |-> d.call.index,
                                            note |-> generateNote(withIndex)]>>, "")
              ELSE IF step.call.pc = "typeerror"
              THEN DepositRejects(c, "TypeError") /\ UNCHANGED notes
              ELSE /\ pending' = [pending EXCEPT
                          ![c].deposit.call = step.call,
                          ![c].deposit.tree = IF d.detached THEN rebuilt ELSE d.tree]
                   /\ UNCHANGED <<notes, lastOp>>
    /\ UNCHANGED <<treeVars, calls, stealthVars, proving, nullifierHashes, ledger,
                   sent, wallets>>

\* withdraw() on client c rejects.
WithdrawRejects(c, error) ==
    /\ pending' = [pending EXCEPT ![c].withdraw = IdleWithdraw]
    /\ lastOp' = ClientOp("withdraw", <<c, pending[c].withdraw.note>>, FALSE, <<>>, error)

\* withdraw(note, recipient) on client c, with options.useRelayer as given, up to
\* its first await: the note is parsed and syncMerkleTree suspends in
\* fetchDepositEvents().
Withdraw(c, note, useRelayer) ==
    /\ pending[c].withdraw.pc = "idle"
    /\ InFlight < MaxInFlight
    /\ pending' = [pending EXCEPT ![c].withdraw =
           [IdleWithdraw EXCEPT !.pc = "fetching", !.note = note,
                                !.useRelayer = useRelayer, !.deposit = parseNote(note)]]
    /\ UNCHANGED <<treeVars, lastOp, calls, stealthVars, proving, nullifierHashes,
                   ledger, clients, notes, sent, wallets>>

\* syncMerkleTree resumes: this.merkleTree is replaced by a new tree filled from
\* the events; an insert of deposit() suspended on the old tree goes on there.
WithdrawSync(c) ==
    /\ pending[c].withdraw.pc = "fetching"
    /\ LET synced == syncMerkleTree
           d == pending[c].deposit
           left == IF d.pc = "hashing" /\ ~d.detached
                   THEN [d EXCEPT !.detached = TRUE, !.tree = clients[c]]
                   ELSE d
       IN  /\ clients' = [clients EXCEPT ![c] = synced.tree]
           /\ IF synced.ok
              THEN /\ pending' = [pending EXCEPT ![c].withdraw.pc = "synced",
                                                ![c].deposit = left]
                   /\ UNCHANGED lastOp
              ELSE /\ pending' = [pending EXCEPT ![c].withdraw = IdleWithdraw,
                                                ![c].deposit = left]
                   /\ lastOp' = ClientOp("withdraw", <<c, pending[c].withdraw.note>>,
                                         FALSE, <<>>, "Tree is full")
    /\ UNCHANGED <<treeVars, calls, stealthVars, proving, nullifierHashes, ledger,
                   notes, sent, wallets>>

\* withdraw() step 3: getProof(deposit.leafIndex) on this.merkleTree as it is
\* now, then computeNullifierHash.
WithdrawGetProof(c) ==
    /\ pending[c].withdraw.pc = "synced"
    /\ LET w == pending[c].withdraw
           tree == clients[c]
           merkleProof == getProofOf(tree.leaves, tree.layers, ClientLevels, ClientZeros,
                                     w.deposit.leafIndex[1])
       IN  IF ~merkleProof.ok
           THEN WithdrawRejects(c, merkleProof.error)
           ELSE /\ pending' = [pending EXCEPT
                       ![c].withdraw.pc = "proving",
                       ![c].withdraw.merkleProof = merkleProof,
                       ![c].withdraw.nullifierHash =
                           computeNullifierHash(w.deposit.nullifier,
                                                w.deposit.leafIndex[1])]
                /\ UNCHANGED lastOp
    /\ UNCHANGED <<treeVars, calls, stealthVars, proving, nullifierHashes, ledger,
                   clients, notes, sent, wallets>>

\* withdraw() steps 4 and 5 up to the next await: the proof is generated (the
\* circuit artifacts load or not; the circuit is Withdraw(20) and the client's
\* tree has config.merkleTreeLevels = 20 levels, both ClientLevels here) and
\* handed to the relayer when
\* options.useRelayer and config.relayerUrl are set; else the wallet checks
\* of withdraw and submitDirectWithdrawal pass or throw, and
\* submitDirectWithdrawal suspends in getDefaultPoolAddress with the proof.
WithdrawSubmit(c, artifacts) ==
    /\ pending[c].withdraw.pc = "proving"
    /\ LET w == pending[c].withdraw
           withdrawInputs ==
               [root |-> w.merkleProof.root, nullifierHash |-> w.nullifierHash,
                recipient |-> <<"1", "1">>, relayer |-> <<"1", "1">>, fee |-> Fe(0),
                secret |-> w.deposit.secret, nullifier |-> w.deposit.nullifier,
                pathElements |-> w.merkleProof.pathElements,
                pathIndices |-> w.merkleProof.pathIndices]
           proved == generateWithdrawProofOf(ClientLevels, withdrawInputs, artifacts)
       IN  IF proved.threw
           THEN WithdrawRejects(c, "Invalid address") /\ UNCHANGED sent
           ELSE IF w.useRelayer /\ relayerUrl[c]
           THEN /\ sent' = sent \cup {submitViaRelayer(proved.proof, proved.publicSignals,
                                                       withdrawInputs.recipient)}
                /\ pending' = [pending EXCEPT ![c].withdraw.pc = "submitted",
                                              ![c].withdraw.via = "relayer"]
                /\ UNCHANGED lastOp
           ELSE IF ~wallets[c]
           THEN WithdrawRejects(c, "Wallet required for direct withdrawal")
                /\ UNCHANGED sent
           ELSE /\ pending' = [pending EXCEPT ![c].withdraw.pc = "direct",
                                              ![c].withdraw.proof = <<proved.proof>>]
                /\ UNCHANGED <<lastOp, sent>>
    /\ UNCHANGED <<treeVars, calls, stealthVars, proving, nullifierHashes, ledger,
                   clients, notes, wallets>>

\* submitDirectWithdrawal after getDefaultPoolAddress: this.wallet.publicKey
\* throws when the wallet was disconnected meanwhile, else the instruction is
\* handed to sendAndConfirmTransaction.
WithdrawSend(c) ==
    /\ pending[c].withdraw.pc = "direct"
    /\ LET w == pending[c].withdraw
       IN  IF ~wallets[c]
           THEN WithdrawRejects(c, "TypeError") /\ UNCHANGED sent
           ELSE /\ sent' = sent \cup {submitDirectWithdrawal(w.proof[1],
                                                             w.merkleProof.root,
                                                             w.nullifierHash)}
                /\ pending' = [pending EXCEPT ![c].withdraw.pc = "submitted",
                                              ![c].withdraw.via = "direct"]
                /\ UNCHANGED lastOp
    /\ UNCHANGED <<treeVars, calls, stealthVars, proving, nullifierHashes, ledger,
                   clients, notes, wallets>>

\* What follows the submission: the relayer or the ledger refuses, or accepts
\* and getPoolState() then finds the pool account or not.
WithdrawOutcomes == {"accepted", "refused", "Pool not found"}

\* withdraw() after its submission: it rejects, or resolves with
\* {signature, recipient, amount, fee, nullifierHash}.
WithdrawSettle(c, outcome) ==
    /\ pending[c].withdraw.pc = "submitted"
    /\ LET w == pending[c].withdraw
       IN  IF outcome = "refused"
           THEN WithdrawRejects(c, IF w.via = "relayer" THEN "Relayer error"
                                   ELSE "Transaction rejected")
           ELSE IF outcome = "Pool not found"
           THEN WithdrawRejects(c, "Pool not found")
           ELSE /\ pending' = [pending EXCEPT ![c].withdraw = IdleWithdraw]
                /\ lastOp' = ClientOp("withdraw", <<c, w.note>>, TRUE,
                                      <<[recipient |-> <<"1", "1">>, fee |-> Fe(0),
                                         nullifierHash |-> w.nullifierHash]>>, "")
    /\ UNCHANGED <<treeVars, calls, stealthVars, proving, nullifierHashes, ledger,
                   clients, notes, sent, wallets>>

\* registerIdentity() on client c up to its first await: the wallet check, then
\* generateCommitment() with randomBytes giving secret and nullifier.
RegisterIdentity(c, secret, nullifier) ==
    /\ pending[c].tx.pc = "idle"
    /\ wallets[c] => Cardinality(sent) < MaxDeposits /\ InFlight < MaxInFlight
    /\ LET deposit == generateCommitment(secret, nullifier)
       IN  IF ~wallets[c]
           THEN /\ lastOp' = ClientOp("registerIdentity", <<c>>, FALSE,
                                      <<>>, "Wallet not connected")
                /\ UNCHANGED pending
           ELSE /\ pending' = [pending EXCEPT ![c].tx =
                       [pc |-> "preparing", op |-> "registerIdentity",
                        ret |-> <<[commitment |-> deposit.commitment,
                                   secret |-> deposit.secret,
                                   nullifier |-> deposit.nullifier]>>]]
                /\ UNCHANGED lastOp
    /\ UNCHANGED <<treeVars, calls, stealthVars, proving, nullifierHashes, ledger,
                   clients, notes, sent, wallets>>

\* registerIdentity() after generateCommitment(), up to the await of
\* buildRegisterIdentityInstruction: this.wallet.publicKey throws when the
\* wallet was disconnected meanwhile.
RegisterIdentityBuild(c) ==
    /\ pending[c].tx.pc = "preparing"
    /\ IF ~wallets[c]
       THEN /\ lastOp' = ClientOp("registerIdentity", <<c>>, FALSE, <<>>, "TypeError")
            /\ pending' = [pending EXCEPT ![c].tx = IdleTransaction]
       ELSE /\ pending' = [pending EXCEPT ![c].tx.pc = "built"]
            /\ UNCHANGED lastOp
    /\ UNCHANGED <<treeVars, calls, stealthVars, proving, nullifierHashes, ledger,
                   clients, notes, sent, wallets>>

\* createStealthMetaAddress() on client c, randomBytes giving the two private
\* keys: without a wallet the kit is returned at once, with one
\* this.wallet.publicKey is read and the call suspends in
\* buildCreateStealthMetaAddressInstruction.
CreateStealthMetaAddress(c, s, v) ==
    /\ pending[c].tx.pc = "idle"
    /\ wallets[c] => Cardinality(sent) < MaxDeposits /\ InFlight < MaxInFlight
    /\ LET made == generateStealthMetaAddress(s, v)
       IN  IF ~wallets[c]
           THEN /\ lastOp' = ClientOp("createStealthMetaAddress", <<c>>, TRUE,
                                      <<made>>, "")
                /\ UNCHANGED pending
           ELSE /\ pending' = [pending EXCEPT ![c].tx =
                       [pc |-> "built", op |-> "createStealthMetaAddress",
                        ret |-> <<made>>]]
                /\ UNCHANGED lastOp
    /\ UNCHANGED <<treeVars, calls, stealthVars, proving, nullifierHashes, ledger,
                   clients, notes, sent, wallets>>

\* registerIdentity() or createStealthMetaAddress() with its instruction
\* built: the instruction is handed to sendAndConfirmTransaction with the
\* signers [this.wallet], whatever this.wallet is by now.
SendTransaction(c) ==
    /\ pending[c].tx.pc = "built"
    /\ LET t == pending[c].tx
       IN  sent' = sent \cup
               {IF t.op = "registerIdentity"
                THEN buildRegisterIdentityInstruction(DepositData(t.ret[1]))
                ELSE buildCreateStealthMetaAddressInstruction(t.ret[1].metaAddress)}
    /\ pending' = [pending EXCEPT ![c].tx.pc = "sent"]
    /\ UNCHANGED <<treeVars, lastOp, calls, stealthVars, proving, nullifierHashes,
                   ledger, clients, notes, wallets>>

\* sendAndConfirmTransaction of registerIdentity() or createStealthMetaAddress()
\* resolves or rejects, and so does the call.
SettleTransaction(c, confirmed) ==
    /\ pending[c].tx.pc = "sent"
    /\ LET t == pending[c].tx
       IN  lastOp' = IF confirmed THEN ClientOp(t.op, <<c>>, TRUE, t.ret, "")
                     ELSE ClientOp(t.op, <<c>>, FALSE, <<>>, "Transaction rejected")
    /\ pending' = [pending EXCEPT ![c].tx = IdleTransaction]
    /\ UNCHANGED <<treeVars, calls, stealthVars, proving, nullifierHashes, ledger,
                   clients, notes, sent, wallets>>

InitClient ==
    /\ levels = 1 /\ leaves = <<>> /\ layers = <<>> /\ zeroValues = initZeroValues(1)
    /\ circomlibjs = TRUE /\ lastOp = NoOp /\ calls = NoCalls
    /\ StealthIdle

\* The steps of deposit() on the clients of ids.
DepositStepsOf(ids) ==
    \/ \E c \in ids, r \in RandomPairs : Deposit(c, r[1], r[2])
    \/ \E c \in ids, poolFound \in BOOLEAN : DepositBuild(c, poolFound)
    \/ \E c \in ids : DepositSend(c)
    \/ \E c \in ids : ConfirmDeposit(c)
    \/ \E c \in ids : RejectDeposit(c)
    \/ \E c \in ids : DepositInsert(c)
    \/ \E c \in ids : DepositRebuild(c)

\* The steps of deposit().
DepositSteps == DepositStepsOf(ClientIds)

\* The notes deposit() has returned in this session.
SessionNotes == {x.note : x \in notes}

\* Notes kept from earlier sessions: what generateNote wrote for deposits at
\* the leaf indices of a tree of the clients' depth.
SavedNotes ==
    {generateNote([generateCommitment(r[1], r[2]) EXCEPT !.leafIndex = <<i>>]) :
         r \in RandomPairs, i \in 0..(Pow2(ClientLevels) - 1)}

\* The steps of withdraw() on the clients of ids, the calls given the notes of
\* this session and, with kept, the notes kept from earlier ones.
WithdrawStepsOf(ids, kept) ==
    \/ \E c \in ids, note \in SessionNotes \cup (IF kept THEN SavedNotes ELSE {}),
          r \in BOOLEAN : Withdraw(c, note, r)
    \/ \E c \in ids : WithdrawSync(c)
    \/ \E c \in ids : WithdrawGetProof(c)
    \/ \E c \in ids, artifacts \in BOOLEAN : WithdrawSubmit(c, artifacts)
    \/ \E c \in ids : WithdrawSend(c)
    \/ \E c \in ids, outcome \in WithdrawOutcomes : WithdrawSettle(c, outcome)

\* The steps of withdraw().
WithdrawSteps == WithdrawStepsOf(ClientIds, FALSE)

\* Clients that connect, deposit, withdraw and register an identity.
NextClient ==
    \/ \E c \in ClientIds : Connect(c)
    \/ DepositSteps
    \/ WithdrawSteps
    \/ \E c \in ClientIds, r \in RandomPairs : RegisterIdentity(c, r[1], r[2])
    \/ \E c \in ClientIds : RegisterIdentityBuild(c)
    \/ \E c \in ClientIds : SendTransaction(c)
    \/ \E c \in ClientIds, confirmed \in BOOLEAN : SettleTransaction(c, confirmed)

SpecClient == InitClient /\ [][NextClient]_vars

\* deposit() and withdraw() calls of clients that connect and disconnect.
NextWithdraw ==
    \/ \E c \in ClientIds : Connect(c)
    \/ \E c \in ClientIds : Disconnect(c)
    \/ DepositSteps
    \/ WithdrawSteps

SpecWithdraw == InitClient /\ [][NextWithdraw]_vars

\* One client that connects and disconnects: its deposit() calls, and its
\* withdraw() calls on the notes of this session and on notes kept from
\* earlier ones.
NextSpend ==
    \/ Connect("A")
    \/ Disconnect("A")
    \/ DepositStepsOf({"A"})
    \/ WithdrawStepsOf({"A"}, TRUE)

SpecSpend == InitClient /\ [][NextSpend]_vars

\* Clients that connect, disconnect and register an identity or a stealth
\* meta-address.
NextRegister ==
    \/ \E c \in ClientIds : Connect(c)
    \/ \E c \in ClientIds : Disconnect(c)
    \/ \E c \in ClientIds, r \in RandomPairs : RegisterIdentity(c, r[1], r[2])
    \/ \E c \in ClientIds : RegisterIdentityBuild(c)
    \/ \E c \in ClientIds : SendTransaction(c)
    \/ \E c \in ClientIds, s \in Keys, v \in Keys : CreateStealthMetaAddress(c, s, v)
    \/ \E c \in ClientIds, confirmed \in BOOLEAN : SettleTransaction(c, confirmed)

SpecRegister == InitClient /\ [][NextRegister]_vars

\* commitment.ts createDeposit(secret, nullifier, leafIndex?)
createDeposit(secret, nullifier, leafIndex) ==
    [secret |-> secret, nullifier |-> nullifier,
     commitment |-> H(secret, nullifier),
     nullifierHash |-> generateNullifierHash(nullifier,
                           IF leafIndex = <<>> THEN 0 ELSE leafIndex[1]),
     leafIndex |-> leafIndex]

\* client.parseNote(note) on a note a deposit returned.
ParseIssuedNote(c, note) ==
    /\ lastOp' = [op |-> "client.parseNote", args |-> <<c, note>>, ok |-> TRUE,
                  ret |-> <<parseNote(note)>>, error |-> "", before |-> Snapshot]
    /\ UNCHANGED <<treeVars, calls, stealthVars, proving, nullifierHashes, clientVars>>

\* createDeposit(secret, nullifier, leafIndex) with the values of a note, or
\* without an index.
CreateDeposit(secret, nullifier, leafIndex) ==
    /\ lastOp' = [op |-> "createDeposit", args |-> <<secret, nullifier, leafIndex>>,
                  ok |-> TRUE, ret |-> <<createDeposit(secret, nullifier, leafIndex)>>,
                  error |-> "", before |-> Snapshot]
    /\ UNCHANGED <<treeVars, calls, stealthVars, proving, nullifierHashes, clientVars>>

NextRecord ==
    \/ \E c \in ClientIds : Connect(c)
    \/ DepositSteps
    \/ \E c \in ClientIds, x \in notes : ParseIssuedNote(c, x.note)
    \/ \E x \in notes : \E i \in {<<>>, x.note.i} :
           CreateDeposit(x.note.s, x.note.n, i)

SpecRecord == InitClient /\ [][NextRecord]_vars

\* deposit() calls of clients that connect and disconnect.
NextDeposit ==
    \/ \E c \in ClientIds : Connect(c)
    \/ \E c \in ClientIds : Disconnect(c)
    \/ DepositSteps

SpecDeposit == InitClient /\ [][NextDeposit]_vars

\* ------------------------------------------------------------------ note encoding
\* A JavaScript string is the sequence of its UTF-16 code units. Printable
\* lists the characters of ASCII from the space (32) to the tilde (126); the
\* grave accent (96), which a TLA+ string cannot hold, stands as "U+0060".
Printable ==
    <<" ", "!", "\"", "#", "$", "%", "&", "'", "(", ")", "*", "+", ",", "-", ".", "/",
      "0", "1", "2", "3", "4", "5", "6", "7", "8", "9", ":", ";", "<", "=", ">", "?",
      "@", "A", "B", "C", "D", "E", "F", "G", "H", "I", "J", "K", "L", "M", "N", "O",
      "P", "Q", "R", "S", "T", "U", "V", "W", "X", "Y", "Z", "[", "\\", "]", "^", "_",
      "U+0060", "a", "b", "c", "d", "e", "f", "g", "h", "i", "j", "k", "l", "m", "n", "o",
      "p", "q", "r", "s", "t", "u", "v", "w", "x", "y", "z", "{", "|", "}", "~">>

\* The code unit of a printable character.
Code ==
    [ch \in {Printable[k] : k \in DOMAIN Printable} |->
         31 + (CHOOSE k \in DOMAIN Printable : Printable[k] = ch)]

\* The string with the given characters.
CodeUnits(chars) == [k \in DOMAIN chars |-> Code[chars[k]]]

RECURSIVE Flatten(_)
\* The concatenation of a sequence of strings.
Flatten(strings) ==
    IF strings = <<>> THEN <<>>
    ELSE IF Len(strings) = 1 THEN strings[1]
    ELSE Flatten(SubSeq(strings, 1, Len(strings) \div 2)) \o
         Flatten(SubSeq(strings, Len(strings) \div 2 + 1, Len(strings)))

\* The first position from i on whose code unit is not in set, Len(s) + 1
\* when there is none.
Skip(s, i, set) ==
    CHOOSE j \in i..(Len(s) + 1) :
        /\ j = Len(s) + 1 \/ s[j] \notin set
        /\ \A k \in i..(j - 1) : s[k] \in set

Digits == Code["0"]..Code["9"]

DigitValue(ch) == ch - Code["0"]

\* A bigint below 2^31 in magnitude is an integer; a larger one is the record
\* of its sign and its decimal digits, the most significant first. BigInt
\* yields either; the operations that compute with bigints (toString,
\* bigIntToBuffer, the hashes) take the integers.
Large(negative, digits) == [negative |-> negative, digits |-> digits]

RECURSIVE DigitsOf(_)
\* The decimal digits of a natural number.
DigitsOf(n) == IF n < 10 THEN <<n>> ELSE Append(DigitsOf(n \div 10), n % 10)

RECURSIVE NaturalOf(_)
\* The natural number of at most ten decimal digits.
NaturalOf(digits) ==
    IF digits = <<>> THEN 0
    ELSE NaturalOf(SubSeq(digits, 1, Len(digits) - 1)) * 10 + digits[Len(digits)]

\* Digits without the zeros in front; zero is <<0>>.
StripZeros(digits) ==
    LET kept == {k \in DOMAIN digits : digits[k] # 0}
    IN  IF kept = {} THEN <<0>>
        ELSE SubSeq(digits, CHOOSE k \in kept : \A j \in kept : k <= j, Len(digits))

\* a < b for digits without zeros in front.
DigitsBefore(a, b) ==
    \/ Len(a) < Len(b)
    \/ /\ Len(a) = Len(b)
       /\ \E k \in DOMAIN a : a[k] < b[k] /\ \A j \in 1..(k - 1) : a[j] = b[j]

\* The bigint with the given sign and decimal digits.
BigIntValue(negative, digits) ==
    LET Signed(n) == IF negative THEN 0 - n ELSE n
        Sized(d) ==
            IF DigitsBefore(d, <<2, 1, 4, 7, 4, 8, 3, 6, 4, 8>>) THEN Signed(NaturalOf(d))
            ELSE Large(negative, d)
    IN  Sized(StripZeros(digits))

RECURSIVE MulAddDigits(_, _, _)
\* digits * m + c, for 0 <= c < m <= 2^27: what is carried out of the digits,
\* and then as many low digits as there are digits. The low half is
\* multiplied before the high half takes its carry.
MulAddDigits(digits, m, c) ==
    IF Len(digits) = 1
    THEN <<(digits[1] * m + c) \div 10, (digits[1] * m + c) % 10>>
    ELSE LET High(low) ==
                 IF low[1] < 0 THEN low
                 ELSE MulAddDigits(SubSeq(digits, 1, Len(digits) \div 2), m, low[1]) \o
                      Tail(low)
         IN  High(MulAddDigits(SubSeq(digits, Len(digits) \div 2 + 1, Len(digits)), m, c))

\* digits * m + c
MulAdd(digits, m, c) ==
    LET All(r) == StripZeros(DigitsOf(r[1]) \o Tail(r))
    IN  All(MulAddDigits(digits, m, c))

RECURSIVE Divided(_, _, _)
\* (r * 10^Len(digits) + digits) divided by d, for 0 <= r < d <= 2^27: the
\* digits of the quotient, and then the remainder. The high half is divided
\* before the low half takes its remainder.
Divided(digits, d, r) ==
    IF Len(digits) = 1
    THEN <<(r * 10 + digits[1]) \div d, (r * 10 + digits[1]) % d>>
    ELSE LET Low(high) ==
                 IF high[Len(high)] < 0 THEN high
                 ELSE SubSeq(high, 1, Len(high) - 1) \o
                      Divided(SubSeq(digits, Len(digits) \div 2 + 1, Len(digits)), d,
                              high[Len(high)])
         IN  Low(Divided(SubSeq(digits, 1, Len(digits) \div 2), d, r))

\* The quotient of digits by d, rounded down.
DivSmall(digits, d) ==
    LET Quotient(q) == StripZeros(SubSeq(q, 1, Len(q) - 1))
    IN  Quotient(Divided(digits, d, 0))

RECURSIVE TimesPower(_, _, _, _)
\* digits * b^n, taken b^step at a time (b^step <= 2^27), the first half of
\* the steps before the second.
TimesPower(digits, b, step, n) ==
    IF n <= step THEN MulAdd(digits, b ^ n, 0)
    ELSE LET Rest(done) ==
                 IF done = <<>> THEN done
                 ELSE TimesPower(done, b, step, n - ((n \div step + 1) \div 2) * step)
         IN  Rest(TimesPower(digits, b, step, ((n \div step + 1) \div 2) * step))

RECURSIVE DivPower2(_, _)
\* digits divided by 2^n, rounded down (digits >> n).
DivPower2(digits, n) ==
    IF n <= 27 THEN DivSmall(digits, 2 ^ n)
    ELSE LET Rest(done) ==
                 IF done = <<>> THEN done
                 ELSE DivPower2(done, n - ((n \div 27 + 1) \div 2) * 27)
         IN  Rest(DivPower2(digits, ((n \div 27 + 1) \div 2) * 27))

\* The integer a double has: the double nearest to n * 10^k (n > 0, k >= 0),
\* ties to the even significand. n * 10^k = p * 2^k with p = n * 5^k; p of 53
\* bits or fewer is exact, and else p becomes the multiple of 2^t nearest to
\* it, where m = p >> t has 53 bits: m or m + 1 as p lies below or above
\* (2m + 1) * 2^(t - 1), the even one of them when it lies on it.
DoubleInteger(n, k) ==
    LET Two52 == <<4, 5, 0, 3, 5, 9, 9, 6, 2, 7, 3, 7, 0, 4, 9, 6>>
        Two53 == <<9, 0, 0, 7, 1, 9, 9, 2, 5, 4, 7, 4, 0, 9, 9, 2>>
        Has53Bits(q) == ~DigitsBefore(q, Two52) /\ DigitsBefore(q, Two53)
        Raised(m, t) == IF m = <<>> THEN m ELSE TimesPower(m, 2, 27, t + k)
        Nearest(p, t, m, half) ==
            IF DigitsBefore(half, p) \/ (half = p /\ m[Len(m)] % 2 = 1)
            THEN Raised(MulAdd(m, 1, 1), t)
            ELSE Raised(m, t)
        Halfway(p, t, m, odd) ==
            IF odd = <<>> THEN odd ELSE Nearest(p, t, m, TimesPower(odd, 2, 27, t - 1))
        Shifted(p, t, m) == IF m = <<>> THEN m ELSE Halfway(p, t, m, MulAdd(m, 2, 1))
        Bits(p, low, high) ==
            LET t == CHOOSE t \in low..high : t >= 1 /\ Has53Bits(DivPower2(p, t))
            IN  Shifted(p, t, DivPower2(p, t))
        Rounded(p) ==
            IF DigitsBefore(p, Two53) THEN TimesPower(p, 2, 27, k)
            ELSE Bits(p, ((Len(p) - 1) * 3321928) \div 1000000 - 53,
                      (Len(p) * 3321929) \div 1000000 - 51)
    IN  Rounded(TimesPower(DigitsOf(n), 5, 11, k))

RECURSIVE toString(_)
\* bigint.toString(): decimal digits, no leading zero, a minus sign in front
\* of a negative value.
toString(v) ==
    IF v < 0 THEN <<Code["-"]>> \o toString(0 - v)
    ELSE IF v < 10 THEN <<Code["0"] + v>>
    ELSE toString(v \div 10) \o <<Code["0"] + (v % 10)>>

\* JavaScript values, tagged with their type: strings, numbers, booleans,
\* undefined, null, arrays, and objects as the sequence of their
\* <<key, value>> properties in the order of [[OwnPropertyKeys]].
\* A number is the double nearest to a decimal of a few digits, written as that
\* decimal: <<n>> is the integer n; <<n, e>> with n no multiple of 10 is
\* n / 10^e, a non-integral number for e > 0 and for e < 0 the integer
\* n * 10^-e of ten digits or more; <<0, 0>> is -0; <<1, 0, 0>> and
\* <<-1, 0, 0>> are Infinity and -Infinity. Decimals of more than nine digits
\* and the subnormal range, where a double keeps fewer digits than the decimal
\* has, are not among the inputs.
Str(s) == [t |-> "string", v |-> s]
Num(n) == [t |-> "number", v |-> <<n>>]
Fraction(n, e) == [t |-> "number", v |-> <<n, e>>]
NegativeZero == [t |-> "number", v |-> <<0, 0>>]
Infinity(sign) == [t |-> "number", v |-> <<sign, 0, 0>>]
Bool(b) == [t |-> "boolean", v |-> <<b>>]
Undefined == [t |-> "undefined", v |-> <<>>]
Null == [t |-> "null", v |-> <<>>]
Arr(elements) == [t |-> "array", v |-> elements]
Obj(properties) == [t |-> "object", v |-> properties]

\* The property names the encoders and decoders use.
PropertyName ==
    [secret |-> CodeUnits(<<"s", "e", "c", "r", "e", "t">>),
     nullifier |-> CodeUnits(<<"n", "u", "l", "l", "i", "f", "i", "e", "r">>),
     commitment |-> CodeUnits(<<"c", "o", "m", "m", "i", "t", "m", "e", "n", "t">>),
     nullifierHash |->
         CodeUnits(<<"n", "u", "l", "l", "i", "f", "i", "e", "r", "H", "a", "s", "h">>),
     leafIndex |-> CodeUnits(<<"l", "e", "a", "f", "I", "n", "d", "e", "x">>),
     s |-> CodeUnits(<<"s">>),
     n |-> CodeUnits(<<"n">>),
     c |-> CodeUnits(<<"c">>),
     i |-> CodeUnits(<<"i">>),
     toString |-> CodeUnits(<<"t", "o", "S", "t", "r", "i", "n", "g">>)]

\* StrWhiteSpaceChar: the white space and line terminators StringToBigInt
\* strips from both ends (tab, line feed, vertical tab, form feed, carriage
\* return, space, no-break space, U+1680, U+2000 to U+200A, U+2028, U+2029,
\* U+202F, U+205F, U+3000, U+FEFF).
WhiteSpace ==
    {9, 10, 11, 12, 13, 32, 160, 5760, 8232, 8233, 8239, 8287, 12288, 65279} \cup
    (8192..8202)

Trim(s) ==
    LET kept == {k \in DOMAIN s : s[k] \notin WhiteSpace}
    IN  IF kept = {} THEN <<>>
        ELSE SubSeq(s, CHOOSE k \in kept : \A j \in kept : k <= j,
                       CHOOSE k \in kept : \A j \in kept : k >= j)

\* The value of a digit of radix up to 16 in either case, 16 for a code unit
\* that is none.
RadixDigitValue(ch) ==
    IF ch \in Digits THEN ch - Code["0"]
    ELSE IF ch \in Code["a"]..Code["f"] THEN ch - Code["a"] + 10
    ELSE IF ch \in Code["A"]..Code["F"] THEN ch - Code["A"] + 10
    ELSE 16

\* ch is a digit of the radix.
IsDigit(ch, radix) == RadixDigitValue(ch) < radix

RECURSIVE RadixValue(_, _)
\* The number a short numeral denotes (below 2^31).
RadixValue(s, radix) ==
    IF s = <<>> THEN 0
    ELSE RadixValue(SubSeq(s, 1, Len(s) - 1), radix) * radix + RadixDigitValue(s[Len(s)])

DecimalValue(s) == RadixValue(s, 10)

RECURSIVE RadixDigits(_, _, _, _)
\* The decimal digits of done * radix^Len(s) + the number the numeral s
\* denotes, read step characters at a time (radix^step <= 2^24).
RadixDigits(done, s, radix, step) ==
    IF Len(s) <= step THEN MulAdd(done, radix ^ Len(s), RadixValue(s, radix))
    ELSE LET Rest(half, first) ==
                 IF first = <<>> THEN first
                 ELSE RadixDigits(first, SubSeq(s, half + 1, Len(s)), radix, step)
             First(half) == Rest(half, RadixDigits(done, SubSeq(s, 1, half), radix, step))
         IN  First(Len(s) \div 2)

\* The bigint a numeral of the radix denotes, with the given sign.
NumeralValue(negative, s, radix) ==
    BigIntValue(negative,
                IF radix = 10 THEN [k \in DOMAIN s |-> RadixDigitValue(s[k])]
                ELSE RadixDigits(<<0>>, s, radix,
                                 IF radix = 16 THEN 6 ELSE IF radix = 8 THEN 8 ELSE 24))

\* One or more digits of the radix.
IsNumeral(s, radix) == s # <<>> /\ \A k \in DOMAIN s : IsDigit(s[k], radix)

\* The radix a 0x, 0b or 0o prefix (in either case) announces, 0 without one.
PrefixRadix(s) ==
    IF Len(s) < 2 \/ s[1] # Code["0"] THEN 0
    ELSE IF s[2] \in {Code["x"], Code["X"]} THEN 16
    ELSE IF s[2] \in {Code["b"], Code["B"]} THEN 2
    ELSE IF s[2] \in {Code["o"], Code["O"]} THEN 8
    ELSE 0

BigIntOf(value) == [ok |-> TRUE, value |-> value, error |-> ""]

BigIntThrows(error) == [ok |-> FALSE, value |-> 0, error |-> error]

\* StringToBigInt: the trimmed string is empty (0n), a 0x/0b/0o literal without
\* sign, or decimal digits after an optional sign; anything else is a
\* SyntaxError.
StringToBigInt(str) ==
    LET StringIntegerLiteral(s) ==
            IF s = <<>> THEN BigIntOf(0)
            ELSE IF PrefixRadix(s) # 0
            THEN IF IsNumeral(SubSeq(s, 3, Len(s)), PrefixRadix(s))
                 THEN BigIntOf(NumeralValue(FALSE, SubSeq(s, 3, Len(s)), PrefixRadix(s)))
                 ELSE BigIntThrows("SyntaxError")
            ELSE IF s[1] = Code["-"]
            THEN IF IsNumeral(Tail(s), 10) THEN BigIntOf(NumeralValue(TRUE, Tail(s), 10))
                 ELSE BigIntThrows("SyntaxError")
            ELSE IF s[1] = Code["+"]
            THEN IF IsNumeral(Tail(s), 10) THEN BigIntOf(NumeralValue(FALSE, Tail(s), 10))
                 ELSE BigIntThrows("SyntaxError")
            ELSE IF IsNumeral(s, 10) THEN BigIntOf(NumeralValue(FALSE, s, 10))
            ELSE BigIntThrows("SyntaxError")
    IN  StringIntegerLiteral(Trim(str))

\* Number::toString of n / 10^e (n no multiple of 10), whose k digits stand
\* for 0.digits * 10^p with p = k - e: the digits and p - k zeros for
\* k <= p <= 21, the digits with the point after the first p for 0 < p <= 21,
\* "0." and -p zeros and the digits for -6 < p <= 0, and else the exponent form
\* d[.ddd]e+x or d[.ddd]e-x with x = |p - 1|.
FractionToString(n, e) ==
    LET Zeros(count) == [j \in 1..count |-> Code["0"]]
        Write(digits, k, p) ==
            IF k <= p /\ p <= 21 THEN digits \o Zeros(p - k)
            ELSE IF 0 < p /\ p <= 21
            THEN SubSeq(digits, 1, p) \o <<Code["."]>> \o SubSeq(digits, p + 1, k)
            ELSE IF 0 - 6 < p /\ p <= 0
            THEN <<Code["0"], Code["."]>> \o Zeros(0 - p) \o digits
            ELSE <<digits[1]>> \o
                 (IF k = 1 THEN <<>> ELSE <<Code["."]>> \o Tail(digits)) \o
                 (IF p >= 1 THEN <<Code["e"], Code["+"]>> \o toString(p - 1)
                  ELSE <<Code["e"], Code["-"]>> \o toString(1 - p))
        Magnitude(digits) == Write(digits, Len(digits), Len(digits) - e)
    IN  (IF n < 0 THEN <<Code["-"]>> ELSE <<>>) \o
        Magnitude(toString(IF n < 0 THEN 0 - n ELSE n))

\* Number::toString: -0 is "0", the infinities are "Infinity" and "-Infinity".
NumberToString(v) ==
    IF Len(v) = 1 THEN toString(v[1])
    ELSE IF Len(v) = 3
    THEN (IF v[1] < 0 THEN <<Code["-"]>> ELSE <<>>) \o
         CodeUnits(<<"I", "n", "f", "i", "n", "i", "t", "y">>)
    ELSE IF v[1] = 0 THEN <<Code["0"]>>
    ELSE FractionToString(v[1], v[2])

RECURSIVE PrimitiveThrows(_)
\* ToPrimitive of a value that JSON.parse made throws a TypeError: no property
\* of such a value is callable, so an object with an own property toString has
\* neither a toString nor a valueOf that gives a primitive; an array is joined
\* by Array.prototype.toString, which converts its elements.
PrimitiveThrows(x) ==
    IF x.t = "object" THEN \E k \in DOMAIN x.v : x.v[k][1] = PropertyName.toString
    ELSE IF x.t = "array" THEN \E k \in DOMAIN x.v : PrimitiveThrows(x.v[k])
    ELSE FALSE

RECURSIVE StringOf(_)
\* ToString(value), for a value whose ToPrimitive does not throw: an array is
\* its elements joined by commas (null and undefined elements as the empty
\* string), another object "[object Object]".
StringOf(x) ==
    CASE x.t = "string" -> x.v
      [] x.t = "number" -> NumberToString(x.v)
      [] x.t = "boolean" ->
             IF x.v[1] THEN CodeUnits(<<"t", "r", "u", "e">>)
             ELSE CodeUnits(<<"f", "a", "l", "s", "e">>)
      [] x.t = "undefined" -> CodeUnits(<<"u", "n", "d", "e", "f", "i", "n", "e", "d">>)
      [] x.t = "null" -> CodeUnits(<<"n", "u", "l", "l">>)
      [] x.t = "array" ->
             Flatten([k \in DOMAIN x.v |->
                          (IF k = 1 THEN <<>> ELSE <<Code[","]>>) \o
                          (IF x.v[k].t \in {"null", "undefined"} THEN <<>>
                           ELSE StringOf(x.v[k]))])
      [] x.t = "object" ->
             CodeUnits(<<"[", "o", "b", "j", "e", "c", "t", " ",
                         "O", "b", "j", "e", "c", "t", "]">>)

\* NumberToBigInt: an integral number is the integer the double has (-0 is
\* 0n; the double nearest to n * 10^k is that product only while it has no
\* more than 53 significant bits), any other number a RangeError.
NumberToBigInt(v) ==
    IF Len(v) = 1 THEN BigIntOf(v[1])
    ELSE IF Len(v) = 3 THEN BigIntThrows("RangeError")
    ELSE IF v[1] = 0 THEN BigIntOf(0)
    ELSE IF v[2] < 0
    THEN BigIntOf(BigIntValue(v[1] < 0,
                              DoubleInteger(IF v[1] < 0 THEN 0 - v[1] ELSE v[1], 0 - v[2])))
    ELSE BigIntThrows("RangeError")

\* BigInt(value): a string goes through StringToBigInt; a boolean is 1n or 0n;
\* a number goes through NumberToBigInt; undefined and null are TypeErrors; an
\* array or object is converted to a primitive first, which throws a TypeError
\* or gives a string.
BigInt(x) ==
    CASE x.t = "string" -> StringToBigInt(x.v)
      [] x.t = "number" -> NumberToBigInt(x.v)
      [] x.t = "boolean" -> BigIntOf(IF x.v[1] THEN 1 ELSE 0)
      [] x.t \in {"undefined", "null"} -> BigIntThrows("TypeError")
      [] x.t \in {"array", "object"} ->
             IF PrimitiveThrows(x) THEN BigIntThrows("TypeError")
             ELSE StringToBigInt(StringOf(x))

\* The outcome of a decoding call.
Decoded(deposit) == [ok |-> TRUE, ret |-> deposit, error |-> ""]
Rejected(error) == [ok |-> FALSE, ret |-> <<>>, error |-> error]

HexDigit(d) == IF d < 10 THEN Code["0"] + d ELSE Code["a"] + (d - 10)

HighSurrogates == 55296..56319
LowSurrogates == 56320..57343

\* QuoteJSONString: the characters JSON.stringify writes for the code unit at
\* position k of s.
EscapeAt(s, k) ==
    LET c == s[k]
        unicode == <<Code["\\"], Code["u"], HexDigit(c \div 4096),
                     HexDigit((c \div 256) % 16), HexDigit((c \div 16) % 16),
                     HexDigit(c % 16)>>
    IN  IF c \in {Code["\""], Code["\\"]} THEN <<Code["\\"], c>>
        ELSE IF c = 8 THEN <<Code["\\"], Code["b"]>>
        ELSE IF c = 9 THEN <<Code["\\"], Code["t"]>>
        ELSE IF c = 10 THEN <<Code["\\"], Code["n"]>>
        ELSE IF c = 12 THEN <<Code["\\"], Code["f"]>>
        ELSE IF c = 13 THEN <<Code["\\"], Code["r"]>>
        ELSE IF c < 32 THEN unicode
        ELSE IF c \in HighSurrogates
        THEN IF k < Len(s) /\ s[k + 1] \in LowSurrogates THEN <<c>> ELSE unicode
        ELSE IF c \in LowSurrogates
        THEN IF k > 1 /\ s[k - 1] \in HighSurrogates THEN <<c>> ELSE unicode
        ELSE <<c>>

QuoteJSONString(s) ==
    <<Code["\""]>> \o Flatten([k \in DOMAIN s |-> EscapeAt(s, k)]) \o <<Code["\""]>>

\* The strings joined by commas.
Join(strings) ==
    Flatten([k \in DOMAIN strings |->
                 (IF k = 1 THEN <<>> ELSE <<Code[","]>>) \o strings[k]])

RECURSIVE SerializeJSONProperty(_)
\* JSON.stringify of a value: a finite number is written by Number::toString,
\* an infinite one as null; properties whose value is undefined are left out
\* of an object, undefined elements of an array are written as null.
SerializeJSONProperty(x) ==
    CASE x.t = "string" -> QuoteJSONString(x.v)
      [] x.t = "number" -> IF Len(x.v) = 3 THEN StringOf(Null) ELSE StringOf(x)
      [] x.t \in {"boolean", "null"} -> StringOf(x)
      [] x.t = "undefined" -> StringOf(Null)
      [] x.t = "array" ->
             <<Code["["]>> \o
             Join([k \in DOMAIN x.v |-> SerializeJSONProperty(x.v[k])]) \o
             <<Code["]"]>>
      [] x.t = "object" ->
             LET Defined(p) == p[2].t # "undefined"
                 kept == SelectSeq(x.v, Defined)
             IN  <<Code["{"]>> \o
                 Join([k \in DOMAIN kept |->
                           QuoteJSONString(kept[k][1]) \o <<Code[":"]>> \o
                           SerializeJSONProperty(kept[k][2])]) \o
                 <<Code["}"]>>

JSONstringify(object) == SerializeJSONProperty(object)

\* The white space of the JSON grammar: tab, line feed, carriage return, space.
JsonWhiteSpace == {9, 10, 13, 32}

\* The outcome of parsing a value: the value and the position after it.
Parsed(value, next) == [ok |-> TRUE, value |-> value, next |-> next]
NotParsed == [ok |-> FALSE, value |-> Undefined, next |-> 0]

RECURSIVE StringEnd(_, _)
\* The position of the quote that closes a string literal whose characters
\* start at k; 0 when there is none or a control character comes first.
StringEnd(s, k) ==
    LET Stop(j) ==
            IF j > Len(s) \/ s[j] < 32 THEN 0
            ELSE IF s[j] = Code["\""] THEN j
            ELSE StringEnd(s, j + 2)
        Plain(c) == c >= 32 /\ c # Code["\""] /\ c # Code["\\"]
    IN  IF k > Len(s) THEN 0
        ELSE Stop(CHOOSE j \in k..(Len(s) + 1) :
                      /\ j = Len(s) + 1 \/ ~Plain(s[j])
                      /\ \A i \in k..(j - 1) : Plain(s[i]))

RECURSIVE Unescape(_)
\* The string a string literal denotes, from the characters between its
\* quotes: escapes \" \\ \/ \b \f \n \r \t and \u with four hexadecimal digits.
Unescape(s) ==
    LET Then(c, tail) ==
            LET r == Unescape(tail) IN [ok |-> r.ok, v |-> <<c>> \o r.v]
        Plain(j) ==
            LET r == Unescape(SubSeq(s, j, Len(s)))
            IN  [ok |-> r.ok, v |-> SubSeq(s, 1, j - 1) \o r.v]
        rest == SubSeq(s, 3, Len(s))
    IN  IF s = <<>> THEN [ok |-> TRUE, v |-> <<>>]
        ELSE IF s[1] # Code["\\"]
        THEN Plain(CHOOSE j \in 1..(Len(s) + 1) :
                       /\ j = Len(s) + 1 \/ s[j] = Code["\\"]
                       /\ \A i \in 1..(j - 1) : s[i] # Code["\\"])
        ELSE IF Len(s) < 2 THEN [ok |-> FALSE, v |-> <<>>]
        ELSE IF s[2] \in {Code["\""], Code["\\"], Code["/"]} THEN Then(s[2], rest)
        ELSE IF s[2] = Code["b"] THEN Then(8, rest)
        ELSE IF s[2] = Code["f"] THEN Then(12, rest)
        ELSE IF s[2] = Code["n"] THEN Then(10, rest)
        ELSE IF s[2] = Code["r"] THEN Then(13, rest)
        ELSE IF s[2] = Code["t"] THEN Then(9, rest)
        ELSE IF s[2] = Code["u"] /\ Len(s) >= 6 /\ IsNumeral(SubSeq(s, 3, 6), 16)
        THEN Then(RadixValue(SubSeq(s, 3, 6), 16), SubSeq(s, 7, Len(s)))
        ELSE [ok |-> FALSE, v |-> <<>>]

\* A string literal that starts with the quote at position i.
ParseString(s, i) ==
    LET Quoted(end, string) ==
            IF end # 0 /\ string.ok THEN Parsed(Str(string.v), end + 1) ELSE NotParsed
        ClosedAt(end) == Quoted(end, Unescape(SubSeq(s, i + 1, end - 1)))
    IN  ClosedAt(StringEnd(s, i + 1))

RECURSIVE Reduce(_, _)
\* m * 10^x with the zeros at the end of m > 0 moved into the exponent.
Reduce(m, x) == IF m % 10 = 0 THEN Reduce(m \div 10, x + 1) ELSE <<m, x>>

\* The double a decimal literal denotes, with the given sign, digits before
\* and after the point, and exponent: for m * 10^x = lead * 10^scale with
\* 10^8 <= lead < 10^9, the value rounds to zero when it is at most 2^-1075
\* (2.470328229...e-324) and to an infinity from 2^1024 - 2^970
\* (1.797693134862315807...e308) on; zero and what rounds to it keep the sign.
\* The zeros at the end of the digits count for the exponent only.
NumberOf(negative, integer, fraction, exponent) ==
    LET Sign(n) == IF negative THEN 0 - n ELSE n
        Zero == IF negative THEN NegativeZero ELSE Num(0)
        Finite(m, x, k) ==
            IF x = 0 THEN Num(Sign(m))
            ELSE IF x > 0 /\ k + x <= 9 THEN Num(Sign(m * 10 ^ x))
            ELSE Fraction(Sign(m), 0 - x)
        Rounded(m, x, k, lead, scale) ==
            IF scale < 0 - 332 \/ (scale = 0 - 332 /\ lead <= 247032822) THEN Zero
            ELSE IF scale > 300 \/ (scale = 300 /\ lead >= 179769314)
            THEN Infinity(Sign(1))
            ELSE Finite(m, x, k)
        Sized(m, x, k) ==
            Rounded(m, x, k,
                    IF k <= 9 THEN m * 10 ^ (9 - k) ELSE m \div 10 ^ (k - 9),
                    x + k - 9)
        Reduced(r) == Sized(r[1], r[2], Len(toString(r[1])))
        Scaled(digits, shift) == IF digits = 0 THEN Zero ELSE Reduced(Reduce(digits, shift))
        Significant(all, last) ==
            IF last = 0 THEN Zero
            ELSE Scaled(DecimalValue(SubSeq(all, 1, last)),
                        exponent - Len(fraction) + (Len(all) - last))
        Trimmed(all) ==
            Significant(all, CHOOSE last \in 0..Len(all) :
                                 /\ last = 0 \/ all[last] # Code["0"]
                                 /\ \A k \in (last + 1)..Len(all) : all[k] = Code["0"])
    IN  Trimmed(integer \o fraction)

\* The value of the digits of an exponent; one of five digits or more is as
\* good as 9999, which takes any literal to zero or to an infinity.
ExponentValue(digits) ==
    LET Significant(from) ==
            IF Len(digits) - from + 1 > 4 THEN 9999
            ELSE DecimalValue(SubSeq(digits, from, Len(digits)))
    IN  Significant(Skip(digits, 1, {Code["0"]}))

\* A number that starts at position i: an optional minus sign, an integer
\* part without leading zero (from a to b), an optional fraction (to c), an
\* optional exponent (its digits from d to end).
ParseNumber(s, i) ==
    LET negative == s[i] = Code["-"]
        a == IF negative THEN i + 1 ELSE i
        HasFraction(b) == b <= Len(s) /\ s[b] = Code["."]
        HasExponent(c) == c <= Len(s) /\ s[c] \in {Code["e"], Code["E"]}
        HasSign(c) ==
            HasExponent(c) /\ c + 1 <= Len(s) /\ s[c + 1] \in {Code["+"], Code["-"]}
        Exponent(c, magnitude) ==
            IF ~HasExponent(c) THEN 0
            ELSE IF HasSign(c) /\ s[c + 1] = Code["-"] THEN 0 - magnitude
            ELSE magnitude
        Number(b, c, d, end) ==
            IF /\ b > a
               /\ (b - a = 1 \/ s[a] # Code["0"])
               /\ (HasFraction(b) => c > b + 1)
               /\ (HasExponent(c) => end > d)
            THEN Parsed(NumberOf(negative, SubSeq(s, a, b - 1),
                                 IF HasFraction(b) THEN SubSeq(s, b + 1, c - 1) ELSE <<>>,
                                 Exponent(c, ExponentValue(SubSeq(s, d, end - 1)))), end)
            ELSE NotParsed
        FromExponent(b, c, d) ==
            Number(b, c, d, IF HasExponent(c) THEN Skip(s, d, Digits) ELSE c)
        FromFraction(b, c) == FromExponent(b, c, IF HasSign(c) THEN c + 2 ELSE c + 1)
        FromInteger(b) ==
            FromFraction(b, IF HasFraction(b) THEN Skip(s, b + 1, Digits) ELSE b)
    IN  FromInteger(Skip(s, a, Digits))

\* a < b for decimal numerals without leading zeros.
NumeralBefore(a, b) ==
    \/ Len(a) < Len(b)
    \/ /\ Len(a) = Len(b)
       /\ \E k \in DOMAIN a : a[k] < b[k] /\ \A j \in 1..(k - 1) : a[j] = b[j]

\* An array index: the canonical numeral of an integer from 0 to 2^32 - 2.
IsArrayIndex(key) ==
    /\ IsNumeral(key, 10)
    /\ Len(key) = 1 \/ key[1] # Code["0"]
    /\ NumeralBefore(key, CodeUnits(<<"4", "2", "9", "4", "9", "6", "7", "2", "9", "5">>))

\* CreateDataProperty(object, key, value) on the properties in the order of
\* [[OwnPropertyKeys]]: the property of that name keeps its place; a new
\* array index goes before the first property that is a larger index or no
\* index, another new key to the end.
SetProperty(properties, key, value) ==
    LET After(p) == ~IsArrayIndex(p[1]) \/ NumeralBefore(key, p[1])
        later == {k \in DOMAIN properties : After(properties[k])}
        InsertBefore(at) ==
            SubSeq(properties, 1, at - 1) \o <<<<key, value>>>> \o
            SubSeq(properties, at, Len(properties))
    IN  IF \E k \in DOMAIN properties : properties[k][1] = key
        THEN [k \in DOMAIN properties |->
                  IF properties[k][1] = key THEN <<key, value>> ELSE properties[k]]
        ELSE IF IsArrayIndex(key) /\ later # {}
        THEN InsertBefore(CHOOSE k \in later : \A j \in later : k <= j)
        ELSE Append(properties, <<key, value>>)

\* s has the characters of literal from position i on.
Matches(s, i, literal) ==
    i + Len(literal) - 1 <= Len(s) /\ SubSeq(s, i, i + Len(literal) - 1) = literal

RECURSIVE ParseValue(_, _), ParseElements(_, _, _), ParseMembers(_, _, _)
\* JSON.parse: the value that starts at position i0 or after white space.
ParseValue(s, i0) ==
    LET At(i, inside) ==
            IF i > Len(s) THEN NotParsed
            ELSE IF s[i] = Code["{"]
            THEN IF inside <= Len(s) /\ s[inside] = Code["}"]
                 THEN Parsed(Obj(<<>>), inside + 1)
                 ELSE ParseMembers(s, inside, <<>>)
            ELSE IF s[i] = Code["["]
            THEN IF inside <= Len(s) /\ s[inside] = Code["]"]
                 THEN Parsed(Arr(<<>>), inside + 1)
                 ELSE ParseElements(s, inside, <<>>)
            ELSE IF s[i] = Code["\""] THEN ParseString(s, i)
            ELSE IF s[i] = Code["-"] \/ s[i] \in Digits THEN ParseNumber(s, i)
            ELSE IF Matches(s, i, CodeUnits(<<"t", "r", "u", "e">>))
            THEN Parsed(Bool(TRUE), i + 4)
            ELSE IF Matches(s, i, CodeUnits(<<"f", "a", "l", "s", "e">>))
            THEN Parsed(Bool(FALSE), i + 5)
            ELSE IF Matches(s, i, CodeUnits(<<"n", "u", "l", "l">>))
            THEN Parsed(Null, i + 4)
            ELSE NotParsed
        From(i) == At(i, Skip(s, i + 1, JsonWhiteSpace))
    IN  From(Skip(s, i0, JsonWhiteSpace))

\* The elements of an array from position i on, after those of done.
ParseElements(s, i, done) ==
    LET Followed(element, after) ==
            IF after > Len(s) THEN NotParsed
            ELSE IF s[after] = Code[","]
            THEN ParseElements(s, after + 1, Append(done, element.value))
            ELSE IF s[after] = Code["]"]
            THEN Parsed(Arr(Append(done, element.value)), after + 1)
            ELSE NotParsed
        Element(element) ==
            IF ~element.ok THEN NotParsed
            ELSE Followed(element, Skip(s, element.next, JsonWhiteSpace))
    IN  Element(ParseValue(s, i))

\* The members of an object from position i on, after those of done: a string
\* literal, a colon, a value; a later member replaces the value of an earlier
\* one of the same name, and array indices come first in ascending order.
ParseMembers(s, i, done) ==
    LET Followed(properties, after) ==
            IF after > Len(s) THEN NotParsed
            ELSE IF s[after] = Code[","]
            THEN ParseMembers(s, Skip(s, after + 1, JsonWhiteSpace), properties)
            ELSE IF s[after] = Code["}"] THEN Parsed(Obj(properties), after + 1)
            ELSE NotParsed
        Member(key, member) ==
            IF ~member.ok THEN NotParsed
            ELSE Followed(SetProperty(done, key.value.v, member.value),
                          Skip(s, member.next, JsonWhiteSpace))
        Colon(key, colon) ==
            IF colon > Len(s) THEN NotParsed
            ELSE IF s[colon] # Code[":"] THEN NotParsed
            ELSE Member(key, ParseValue(s, colon + 1))
        Key(key) ==
            IF ~key.ok THEN NotParsed
            ELSE Colon(key, Skip(s, key.next, JsonWhiteSpace))
    IN  IF i > Len(s) \/ s[i] # Code["\""] THEN NotParsed
        ELSE Key(ParseString(s, i))

\* JSON.parse(text): one value with white space around it.
JSONparse(text) ==
    LET Whole(r) ==
            IF r.ok /\ Skip(text, r.next, JsonWhiteSpace) = Len(text) + 1
            THEN [ok |-> TRUE, value |-> r.value]
            ELSE [ok |-> FALSE, value |-> Undefined]
    IN  Whole(ParseValue(text, 1))

\* data.key: undefined when data has no such property; reading a property of
\* null throws.
Field(data, key) ==
    LET at == {k \in DOMAIN data.v : data.v[k][1] = PropertyName[key]}
    IN  IF data.t = "object" /\ at # {} THEN data.v[CHOOSE k \in at : TRUE][2]
        ELSE Undefined

\* commitment.ts serializeDeposit
serializeDeposit(deposit) ==
    JSONstringify(Obj(<<<<PropertyName.secret, Str(toString(deposit.secret))>>,
                        <<PropertyName.nullifier, Str(toString(deposit.nullifier))>>,
                        <<PropertyName.commitment, Str(toString(deposit.commitment))>>,
                        <<PropertyName.nullifierHash,
                          Str(toString(deposit.nullifierHash))>>,
                        <<PropertyName.leafIndex, deposit.leafIndex>>>>))

\* commitment.ts deserializeDeposit: JSON.parse, BigInt() of four properties,
\* leafIndex taken as it is.
deserializeDeposit(json) ==
    LET Record(secret, nullifier, commitment, nullifierHash, leafIndex) ==
            IF ~secret.ok THEN Rejected(secret.error)
            ELSE IF ~nullifier.ok THEN Rejected(nullifier.error)
            ELSE IF ~commitment.ok THEN Rejected(commitment.error)
            ELSE IF ~nullifierHash.ok THEN Rejected(nullifierHash.error)
            ELSE Decoded([secret |-> secret.value, nullifier |-> nullifier.value,
                          commitment |-> commitment.value,
                          nullifierHash |-> nullifierHash.value,
                          leafIndex |-> leafIndex])
        Read(parsed) ==
            IF ~parsed.ok THEN Rejected("SyntaxError")
            ELSE IF parsed.value.t = "null" THEN Rejected("TypeError")
            ELSE Record(BigInt(Field(parsed.value, "secret")),
                        BigInt(Field(parsed.value, "nullifier")),
                        BigInt(Field(parsed.value, "commitment")),
                        BigInt(Field(parsed.value, "nullifierHash")),
                        Field(parsed.value, "leafIndex"))
    IN  Read(JSONparse(json))

NotePrefix ==
    CodeUnits(<<"s", "h", "a", "d", "o", "w", "-", "n", "o", "t", "e", "-", "v", "1", ":">>)

\* Buffer.from(string): the UTF-8 bytes of the code unit at position k (a
\* surrogate pair is written at its first half, a lone surrogate as U+FFFD).
Utf8At(s, k) ==
    LET c == s[k]
        paired == 65536 + (c - 55296) * 1024 + (s[k + 1] - 56320)
    IN  IF c < 128 THEN <<c>>
        ELSE IF c < 2048 THEN <<192 + c \div 64, 128 + (c % 64)>>
        ELSE IF c \in HighSurrogates /\ k < Len(s) /\ s[k + 1] \in LowSurrogates
        THEN <<240 + paired \div 262144, 128 + ((paired \div 4096) % 64),
               128 + ((paired \div 64) % 64), 128 + (paired % 64)>>
        ELSE IF c \in LowSurrogates /\ k > 1 /\ s[k - 1] \in HighSurrogates THEN <<>>
        ELSE IF c \in HighSurrogates \cup LowSurrogates THEN <<239, 191, 189>>
        ELSE <<224 + c \div 4096, 128 + ((c \div 64) % 64), 128 + (c % 64)>>

Utf8Encode(s) == Flatten([k \in DOMAIN s |-> Utf8At(s, k)])

\* The base64 digit of a value below 64.
Base64Digit(v) ==
    IF v < 26 THEN Code["A"] + v
    ELSE IF v < 52 THEN Code["a"] + (v - 26)
    ELSE IF v < 62 THEN Code["0"] + (v - 52)
    ELSE IF v = 62 THEN Code["+"]
    ELSE Code["/"]

\* Buffer.from(json).toString('base64'): four digits for every three bytes,
\* the last group padded with "=".
Base64Encode(json) ==
    LET Encode(bytes) ==
            LET Byte(k) == IF k <= Len(bytes) THEN bytes[k] ELSE 0
                Group(g) ==
                    <<Base64Digit(Byte(3 * g + 1) \div 4),
                      Base64Digit((Byte(3 * g + 1) % 4) * 16 + Byte(3 * g + 2) \div 16),
                      IF 3 * g + 2 <= Len(bytes)
                      THEN Base64Digit((Byte(3 * g + 2) % 16) * 4 +
                                       Byte(3 * g + 3) \div 64)
                      ELSE Code["="],
                      IF 3 * g + 3 <= Len(bytes) THEN Base64Digit(Byte(3 * g + 3) % 64)
                      ELSE Code["="]>>
            IN  Flatten([g \in 1..((Len(bytes) + 2) \div 3) |-> Group(g - 1)])
    IN  Encode(Utf8Encode(json))

\* The value of a base64 digit, 64 for a code unit that is none. A code unit
\* counts by its low byte; "-" and "_" are digits like "+" and "/".
unbase64(c) ==
    LET x == c % 256
    IN  IF x \in Code["A"]..Code["Z"] THEN x - Code["A"]
        ELSE IF x \in Code["a"]..Code["z"] THEN x - Code["a"] + 26
        ELSE IF x \in Digits THEN x - Code["0"] + 52
        ELSE IF x \in {Code["+"], Code["-"]} THEN 62
        ELSE IF x \in {Code["/"], Code["_"]} THEN 63
        ELSE 64

\* Buffer.from(base64, 'base64'): never throws; decoding ends at the first
\* "=", code units that are no digit are skipped, four digits give three
\* bytes, three left-over digits two bytes, two one byte, one none.
Base64Bytes(base64) ==
    LET padding == {k \in DOMAIN base64 : base64[k] % 256 = Code["="]}
        stop == IF padding = {} THEN Len(base64) + 1
                ELSE CHOOSE k \in padding : \A j \in padding : k <= j
        IsDigitOf64(c) == unbase64(c) < 64
        Bytes(digits) ==
            LET n == Len(digits)
                Value(k) == IF k <= n THEN unbase64(digits[k]) ELSE 0
                ByteOf(k) ==
                    LET g == 4 * ((k - 1) \div 3)
                    IN  IF (k - 1) % 3 = 0 THEN Value(g + 1) * 4 + Value(g + 2) \div 16
                        ELSE IF (k - 1) % 3 = 1
                        THEN (Value(g + 2) % 16) * 16 + Value(g + 3) \div 4
                        ELSE (Value(g + 3) % 4) * 64 + Value(g + 4)
            IN  [k \in 1..(3 * (n \div 4) + (IF n % 4 = 0 THEN 0 ELSE (n % 4) - 1)) |->
                     ByteOf(k)]
    IN  Bytes(SelectSeq(SubSeq(base64, 1, stop - 1), IsDigitOf64))

\* The code units of a code point.
CodePoint(cp) ==
    IF cp < 65536 THEN <<cp>>
    ELSE <<55296 + (cp - 65536) \div 1024, 56320 + ((cp - 65536) % 1024)>>

RECURSIVE Utf8Decode(_, _)
\* buffer.toString('utf-8') from byte i on: a well-formed sequence of one to
\* four bytes is its code point, every maximal ill-formed part is U+FFFD.
Utf8Decode(bytes, i) ==
    LET b == bytes[i]
        ascii == Skip(bytes, i, 0..127)
        need == IF b \in 194..223 THEN 1
                ELSE IF b \in 224..239 THEN 2
                ELSE IF b \in 240..244 THEN 3
                ELSE 0
        second == IF b = 224 THEN 160..191
                  ELSE IF b = 237 THEN 128..159
                  ELSE IF b = 240 THEN 144..191
                  ELSE IF b = 244 THEN 128..143
                  ELSE 128..191
        Continues(k) ==
            i + k <= Len(bytes) /\ bytes[i + k] \in (IF k = 1 THEN second ELSE 128..191)
        found == Cardinality({k \in 1..need : \A j \in 1..k : Continues(j)})
        value == IF need = 1 THEN (b - 192) * 64 + (bytes[i + 1] - 128)
                 ELSE IF need = 2
                 THEN (b - 224) * 4096 + (bytes[i + 1] - 128) * 64 + (bytes[i + 2] - 128)
                 ELSE (b - 240) * 262144 + (bytes[i + 1] - 128) * 4096 +
                      (bytes[i + 2] - 128) * 64 + (bytes[i + 3] - 128)
    IN  IF i > Len(bytes) THEN <<>>
        ELSE IF b < 128 THEN SubSeq(bytes, i, ascii - 1) \o Utf8Decode(bytes, ascii)
        ELSE IF need > 0 /\ found = need
        THEN CodePoint(value) \o Utf8Decode(bytes, i + 1 + need)
        ELSE <<65533>> \o Utf8Decode(bytes, i + 1 + found)

\* Buffer.from(base64, 'base64').toString('utf-8')
Base64Decode(base64) == Utf8Decode(Base64Bytes(base64), 1)

\* ShadowClient.generateNote on the characters of the note.
generateNoteString(deposit) ==
    NotePrefix \o
    Base64Encode(JSONstringify(Obj(<<<<PropertyName.s, Str(toString(deposit.secret))>>,
                                     <<PropertyName.n, Str(toString(deposit.nullifier))>>,
                                     <<PropertyName.c, Str(toString(deposit.commitment))>>,
                                     <<PropertyName.i, deposit.leafIndex>>>>)))

\* ShadowClient.parseNote on the characters of the note.
parseNoteString(note) ==
    LET Note(s, n, c, i) ==
            IF ~s.ok THEN Rejected(s.error)
            ELSE IF ~n.ok THEN Rejected(n.error)
            ELSE IF ~c.ok THEN Rejected(c.error)
            ELSE Decoded([secret |-> s.value, nullifier |-> n.value,
                          commitment |-> c.value, nullifierHash |-> 0,
                          leafIndex |-> i])
        Read(parsed) ==
            IF ~parsed.ok THEN Rejected("SyntaxError")
            ELSE IF parsed.value.t = "null" THEN Rejected("TypeError")
            ELSE Note(BigInt(Field(parsed.value, "s")), BigInt(Field(parsed.value, "n")),
                      BigInt(Field(parsed.value, "c")), Field(parsed.value, "i"))
    IN  IF ~Matches(note, 1, NotePrefix) THEN Rejected("Invalid note format")
        ELSE Read(JSONparse(Base64Decode(SubSeq(note, Len(NotePrefix) + 1, Len(note)))))

\* Deposits: secret and nullifier over a range with one- and two-digit values.
BigInts == 0..MaxBigInt

Deposits ==
    [secret : BigInts, nullifier : BigInts, commitment : {0, MaxBigInt},
     nullifierHash : {0, MaxBigInt},
     leafIndex : {Undefined} \cup {Num(k) : k \in LeafIndexChoices}]

\* The string value with the given characters.
Literal(chars) == Str(CodeUnits(chars))

\* Property values of stored text that did not come from the encoder: strings
\* BigInt() reads and strings it refuses, with white space of every kind
\* around them, and values that are no string: numbers that Number::toString
\* writes with and without an exponent, -0, integers from 2^31 on that are a
\* double (3e9) and that are not (1e23), arrays, and objects with and without
\* a property toString; and the numeral of 2^64.
ForeignValues ==
    {Literal(<<>>), Literal(<<"a">>), Literal(<<" ", "7">>), Literal(<<"7">>),
     Literal(<<"-", "7">>), Literal(<<"+", "7">>), Literal(<<"0", "x", "1", "f">>),
     Literal(<<"0", "b", "1", "1">>), Literal(<<"0", "O", "1", "7">>),
     Literal(<<"-">>), Literal(<<"0", "x">>), Literal(<<"-", "0", "x", "1">>),
     Literal(<<"1", ".", "5">>), Literal(<<"7", "n">>),
     Str(<<9, Code["7"]>>), Str(<<Code["7"], 10>>), Str(<<11, Code["7"]>>),
     Str(<<160, Code["7"], 65279>>), Str(<<8232, 8233, Code["7"]>>),
     Str(<<Code["7"], 11, Code["7"]>>), Str(<<12288, 8192>>),
     Bool(TRUE), Undefined, Null, Num(7), Num(0 - 7), Fraction(15, 1),
     Fraction(1, 7), NegativeZero, Fraction(3, 0 - 9), Fraction(1, 0 - 23),
     Literal(<<"1", "8", "4", "4", "6", "7", "4", "4", "0", "7", "3", "7", "0", "9", "5",
               "5", "1", "6", "1", "6">>),
     Arr(<<>>), Arr(<<Num(7)>>), Arr(<<Literal(<<"0", "x", "1", "f">>)>>),
     Arr(<<Num(1), Num(2)>>), Arr(<<Null>>), Obj(<<>>),
     Obj(<<<<PropertyName.toString, Num(1)>>>>),
     Arr(<<Obj(<<<<PropertyName.toString, Null>>>>)>>),
     Obj(<<<<CodeUnits(<<"1">>), Num(2)>>, <<CodeUnits(<<"b">>), Num(1)>>>>)}

\* Text that is not JSON.
InvalidJson == CodeUnits(<<"{", "s", "}">>)

\* The JSON text {}.
EmptyObject == JSONstringify(Obj(<<>>))

\* A text for either decoder whose secret is a number too small for a double
\* (it is read as 0) and whose leaf index is an object with array indices
\* written after another key and in descending order.
UnderflowText ==
    CodeUnits(<<"{", "\"", "s", "\"", ":", "1", "e", "-", "4", "0", "0", ",", "\"", "s",
                "e", "c", "r", "e", "t", "\"", ":", "1", "e", "-", "4", "0", "0", ",",
                "\"", "n", "\"", ":", "\"", "3", "\"", ",", "\"", "n", "u", "l", "l",
                "i", "f", "i", "e", "r", "\"", ":", "\"", "3", "\"", ",", "\"", "c",
                "\"", ":", "\"", "7", "\"", ",", "\"", "c", "o", "m", "m", "i", "t",
                "m", "e", "n", "t", "\"", ":", "\"", "7", "\"", ",", "\"", "n", "u",
                "l", "l", "i", "f", "i", "e", "r", "H", "a", "s", "h", "\"", ":", "\"",
                "0", "\"", ",", "\"", "i", "\"", ":", "{", "\"", "b", "\"", ":", "1",
                ",", "\"", "1", "0", "\"", ":", "2", ",", "\"", "9", "\"", ":", "3",
                "}", ",", "\"", "l", "e", "a", "f", "I", "n", "d", "e", "x", "\"", ":",
                "{", "\"", "b", "\"", ":", "1", ",", "\"", "1", "0", "\"", ":", "2",
                ",", "\"", "9", "\"", ":", "3", "}", "}">>)

\* A text for either decoder whose secret is a number too large for a double
\* (it is read as Infinity) and whose leaf index is read as -0.
OverflowText ==
    CodeUnits(<<"{", "\"", "s", "\"", ":", "1", "e", "4", "0", "0", ",", "\"", "s", "e",
                "c", "r", "e", "t", "\"", ":", "1", "e", "4", "0", "0", ",", "\"", "n",
                "\"", ":", "\"", "3", "\"", ",", "\"", "n", "u", "l", "l", "i", "f",
                "i", "e", "r", "\"", ":", "\"", "3", "\"", ",", "\"", "c", "\"", ":",
                "\"", "7", "\"", ",", "\"", "c", "o", "m", "m", "i", "t", "m", "e", "n",
                "t", "\"", ":", "\"", "7", "\"", ",", "\"", "n", "u", "l", "l", "i",
                "f", "i", "e", "r", "H", "a", "s", "h", "\"", ":", "\"", "0", "\"", ",",
                "\"", "i", "\"", ":", "-", "1", "e", "-", "4", "0", "0", ",", "\"", "l",
                "e", "a", "f", "I", "n", "d", "e", "x", "\"", ":", "-", "1", "e", "-",
                "4", "0", "0", "}">>)

\* JSON texts that are no object, or are one written another way than
\* JSON.stringify writes it: white space, escapes, a property written twice, a
\* number with fraction and exponent, numbers beyond the range of a double, a
\* byte order mark in front.
ForeignTexts ==
    {InvalidJson, <<>>, EmptyObject, <<65279>> \o EmptyObject,
     JSONstringify(Null), JSONstringify(Arr(<<>>)), JSONstringify(Num(7)),
     JSONstringify(Literal(<<"7">>)), JSONstringify(Bool(TRUE)),
     CodeUnits(<<" ", "{", " ", "\"", "s", "\"", " ", ":", " ", "\"", "7", "\"", ",",
                 "\"", "n", "\"", ":", "\"", "\\", "u", "0", "0", "3", "3", "\"", ",",
                 "\"", "c", "\"", ":", "7", "0", "e", "-", "1", ",",
                 "\"", "s", "\"", ":", "\"", "5", "\"", "}", " ">>),
     CodeUnits(<<"{", "\"", "s", "\"", ":", "\"", "7", "\"", ",", "}">>),
     CodeUnits(<<"{", "\"", "s", "\"", ":", "0", "7", "}">>),
     UnderflowText, OverflowText}

DepositTexts ==
    ForeignTexts \cup
    {JSONstringify(Obj(<<<<PropertyName.secret, secret>>,
                         <<PropertyName.nullifier, nullifier>>,
                         <<PropertyName.commitment, Literal(<<"7">>)>>,
                         <<PropertyName.nullifierHash, nullifierHash>>,
                         <<PropertyName.leafIndex, leafIndex>>>>)) :
         secret \in ForeignValues,
         nullifier \in {Literal(<<"3">>), Literal(<<>>), Undefined},
         nullifierHash \in {Literal(<<"0">>), Bool(TRUE)},
         leafIndex \in {Num(0), Fraction(1, 7), Literal(<<"a">>), Undefined}}

\* Code units put before, into or after a note body: characters outside the
\* base64 alphabet, the padding character, the digits of base64url, and a
\* code unit above 255 whose low byte is a base64 digit (U+0141, "A").
ForeignCharacters ==
    {Code["!"], Code[" "], Code["."], 10, 233, Code["="], Code["-"], Code["_"], 321}

\* The string with the code unit c put in after the first k code units of s.
InsertAt(s, k, c) == SubSeq(s, 1, k) \o <<c>> \o SubSeq(s, k + 1, Len(s))

\* The JSON texts of notes that did not come from the encoder.
NoteTexts ==
    ForeignTexts \cup
    {JSONstringify(Obj(<<<<PropertyName.s, s>>, <<PropertyName.n, n>>,
                         <<PropertyName.c, Literal(<<"7">>)>>,
                         <<PropertyName.i, i>>>>)) :
         s \in ForeignValues, n \in {Literal(<<"3">>), Literal(<<>>)},
         i \in {Num(0), Fraction(1, 7), Literal(<<"x">>), Undefined}}

\* A note of the encoder, the base of the notes with a foreign code unit.
SampleNote ==
    generateNoteString([secret |-> 7, nullifier |-> 3, commitment |-> 7,
                        nullifierHash |-> 0, leafIndex |-> Num(0)])

\* Notes that did not come from the encoder: the JSON texts above behind the
\* prefix, a body without any base64 digit, bodies with a foreign code unit
\* at the start, inside and at the end, and other prefixes.
NoteStrings ==
    {NotePrefix \o Base64Encode(json) : json \in NoteTexts} \cup
    {NotePrefix \o CodeUnits(<<"!", "!", "!">>), NotePrefix,
     NotePrefix \o Base64Encode(EmptyObject) \o Base64Encode(EmptyObject)} \cup
    UNION {{InsertAt(note, k, c) :
                k \in {Len(NotePrefix), Len(NotePrefix) + 2,
                       (Len(NotePrefix) + Len(note)) \div 2, Len(note)},
                c \in ForeignCharacters} :
               note \in {SampleNote, NotePrefix \o Base64Encode(EmptyObject)}} \cup
    {prefix \o Base64Encode(json) :
         prefix \in {CodeUnits(<<"s", "h", "a", "d", "o", "w", "-", "n", "o", "t", "e",
                                 "-", "v", "2", ":">>),
                     CodeUnits(<<"S", "h", "a", "d", "o", "w", "-", "n", "o", "t", "e",
                                 "-", "v", "1", ":">>),
                     <<Code[" "]>> \o NotePrefix, <<>>},
         json \in {EmptyObject, InvalidJson,
                   Base64Decode(SubSeq(SampleNote, Len(NotePrefix) + 1, Len(SampleNote)))}}

\* deserializeDeposit(json); origin is the deposit the text was written from,
\* for text of serializeDeposit.
DeserializeDeposit(json, origin) ==
    LET Returns(r) ==
            lastOp' = [op |-> "deserializeDeposit", args |-> <<json>> \o origin,
                       ok |-> r.ok, ret |-> r.ret, error |-> r.error, before |-> Snapshot]
    IN  /\ lastOp = NoOp
        /\ Returns(deserializeDeposit(json))
        /\ UNCHANGED <<treeVars, calls, stealthVars, proving, nullifierHashes,
                       clientVars>>

\* parseNote(note); origin is the deposit the note was written from, for a
\* note of generateNote.
ParseNote(note, origin) ==
    LET Returns(r) ==
            lastOp' = [op |-> "parseNote", args |-> <<note>> \o origin, ok |-> r.ok,
                       ret |-> r.ret, error |-> r.error, before |-> Snapshot]
    IN  /\ lastOp = NoOp
        /\ Returns(parseNoteString(note))
        /\ UNCHANGED <<treeVars, calls, stealthVars, proving, nullifierHashes,
                       clientVars>>

InitNote == InitProver

NextNote ==
    \/ \E d \in Deposits : DeserializeDeposit(serializeDeposit(d), <<d>>)
    \/ \E json \in DepositTexts : DeserializeDeposit(json, <<>>)
    \/ \E d \in Deposits : ParseNote(generateNoteString(d), <<d>>)
    \/ \E note \in NoteStrings : ParseNote(note, <<>>)

SpecNote == InitNote /\ [][NextNote]_vars

\* ------------------------------------------------------------------ proof bytes
\* utils.ts bigIntToBuffer: the low byte goes to the last position, the value
\* is shifted right by 8 bits, for every position down to the first.
bigIntToBuffer(value, length) ==
    LET remaining[i \in 1..length] ==
            IF i = length THEN value ELSE remaining[i + 1] \div 256
    IN  [i \in 1..length |-> remaining[i] % 256]

\* The BigInt() calls of proofToBytes in their order: pi_a[0], pi_a[1],
\* pi_b[0][0], pi_b[0][1], pi_b[1][0], pi_b[1][1], pi_c[0], pi_c[1].
ProofCoordinates(proof) ==
    <<BigInt(Str(proof.pi_a[1])), BigInt(Str(proof.pi_a[2])),
      BigInt(Str(proof.pi_b[1][1])), BigInt(Str(proof.pi_b[1][2])),
      BigInt(Str(proof.pi_b[2][1])), BigInt(Str(proof.pi_b[2][2])),
      BigInt(Str(proof.pi_c[1])), BigInt(Str(proof.pi_c[2]))>>

\* The outcome of the conversions of proofToBytes: what the first failing
\* BigInt() throws, or the eight values.
Converted(at) ==
    LET thrown == {k \in DOMAIN at : ~at[k].ok}
    IN  IF thrown = {} THEN Decoded([k \in DOMAIN at |-> at[k].value])
        ELSE Rejected(at[CHOOSE k \in thrown : \A j \in thrown : k <= j].error)

\* A proofToBytes that writes the G2 sub-coordinates in the prover's order.
proofToBytesUnswapped(proof) ==
    LET Write(piAx, piAy, piBx0, piBx1, piBy0, piBy1, piCx, piCy) ==
            [piA |-> bigIntToBuffer(piAx, 32) \o bigIntToBuffer(piAy, 32),
             piB |-> bigIntToBuffer(piBx0, 32) \o bigIntToBuffer(piBx1, 32) \o
                     bigIntToBuffer(piBy0, 32) \o bigIntToBuffer(piBy1, 32),
             piC |-> bigIntToBuffer(piCx, 32) \o bigIntToBuffer(piCy, 32)]
        Bytes(r) ==
            IF ~r.ok THEN r
            ELSE Decoded(Write(r.ret[1], r.ret[2], r.ret[3], r.ret[4], r.ret[5],
                               r.ret[6], r.ret[7], r.ret[8]))
    IN  Bytes(Converted(ProofCoordinates(proof)))

\* types.ts proofToBytes: throws what the first failing BigInt() throws.
proofToBytes(proof) ==
    LET Write(piAx, piAy, piBx0, piBx1, piBy0, piBy1, piCx, piCy) ==
            [piA |-> bigIntToBuffer(piAx, 32) \o bigIntToBuffer(piAy, 32),
             piB |-> bigIntToBuffer(piBx1, 32) \o bigIntToBuffer(piBx0, 32) \o
                     bigIntToBuffer(piBy1, 32) \o bigIntToBuffer(piBy0, 32),
             piC |-> bigIntToBuffer(piCx, 32) \o bigIntToBuffer(piCy, 32)]
        Bytes(r) ==
            IF ~r.ok THEN r
            ELSE Decoded(Write(r.ret[1], r.ret[2], r.ret[3], r.ret[4], r.ret[5],
                               r.ret[6], r.ret[7], r.ret[8]))
    IN  Bytes(Converted(ProofCoordinates(proof)))

\* Coordinates of one, two and more bytes.
Coordinates == {0, MaxCoordinate, 256 * MaxCoordinate + 255}

\* A snarkjs proof: decimal strings, [x, y, "1"] for G1 and
\* [[x0, x1], [y0, y1], ["1", "0"]] for G2. The proofs below take every
\* coordinate value in pi_b, and 0 and MaxCoordinate in pi_a and pi_c.
G1(x, y) == <<toString(x), toString(y), toString(1)>>
G2(x0, x1, y0, y1) ==
    <<<<toString(x0), toString(x1)>>, <<toString(y0), toString(y1)>>,
      <<toString(1), toString(0)>>>>

Proofs ==
    {[pi_a |-> G1(ax, ay), pi_b |-> G2(x0, x1, y0, y1), pi_c |-> G1(cx, cy),
      protocol |-> "groth16", curve |-> "bn128"] :
         ax \in {0, MaxCoordinate}, ay \in {0, MaxCoordinate}, x0 \in Coordinates,
         x1 \in Coordinates, y0 \in Coordinates, y1 \in Coordinates,
         cx \in {0, MaxCoordinate}, cy \in {0, MaxCoordinate}}

\* Coordinates no prover writes: no numeral, an empty string, a numeral with
\* a sign, a prefix or white space.
ForeignCoordinates ==
    {CodeUnits(<<"x">>), <<>>, CodeUnits(<<"-", "1">>), CodeUnits(<<"0", "x", "1", "f">>),
     <<11, Code["7"]>>, CodeUnits(<<" ", "7", " ">>)}

\* Proof objects with a foreign coordinate in pi_a, pi_b or pi_c.
ForeignProofs ==
    LET proof == [pi_a |-> G1(1, 2), pi_b |-> G2(3, 4, 5, 6), pi_c |-> G1(7, 8),
                  protocol |-> "groth16", curve |-> "bn128"]
    IN  UNION {{[proof EXCEPT !.pi_a[2] = x], [proof EXCEPT !.pi_b[1][2] = x],
                [proof EXCEPT !.pi_c[1] = x],
                [proof EXCEPT !.pi_a[1] = x, !.pi_c[2] = CodeUnits(<<"1", ".", "5">>)]} :
                   x \in ForeignCoordinates}

ProofToBytes(proof) ==
    LET Returns(r) ==
            lastOp' = [op |-> "proofToBytes", args |-> <<proof>>, ok |-> r.ok,
                       ret |-> r.ret, error |-> r.error, before |-> Snapshot]
    IN  /\ lastOp = NoOp
        /\ Returns(proofToBytes(proof))
        /\ UNCHANGED <<treeVars, calls, stealthVars, proving, nullifierHashes,
                       clientVars>>

InitProofBytes == InitProver

\* bytes.slice(start, end): a negative position counts from the end, and both
\* are clamped to the length of the array.
Slice(bytes, start, end) ==
    LET Clamp(k) == IF k < 0 THEN (IF Len(bytes) + k < 0 THEN 0 ELSE Len(bytes) + k)
                    ELSE IF k > Len(bytes) THEN Len(bytes)
                    ELSE k
    IN  SubSeq(bytes, Clamp(start) + 1, Clamp(end))

\* types.ts bytesToProof
bytesToProof(bytes) ==
    LET piAx == bufferToBigInt(Slice(bytes.piA, 0, 32))
        piAy == bufferToBigInt(Slice(bytes.piA, 32, 64))
        piBx0 == bufferToBigInt(Slice(bytes.piB, 0, 32))
        piBx1 == bufferToBigInt(Slice(bytes.piB, 32, 64))
        piBy0 == bufferToBigInt(Slice(bytes.piB, 64, 96))
        piBy1 == bufferToBigInt(Slice(bytes.piB, 96, 128))
        piCx == bufferToBigInt(Slice(bytes.piC, 0, 32))
        piCy == bufferToBigInt(Slice(bytes.piC, 32, 64))
    IN  [pi_a |-> <<toString(piAx), toString(piAy), toString(1)>>,
         pi_b |-> <<<<toString(piBx0), toString(piBx1)>>,
                    <<toString(piBy0), toString(piBy1)>>,
                    <<toString(1), toString(0)>>>>,
         pi_c |-> <<toString(piCx), toString(piCy), toString(1)>>,
         protocol |-> "groth16",
         curve |-> "bn128"]

\* The lengths of piA, piB and piC: those proofToBytes writes, and shorter ones.
ByteLengths == {<<64, 128, 64>>, <<32, 128, 64>>, <<64, 64, 0>>}

\* bytesToProof of the first lengths[1], lengths[2] and lengths[3] bytes of
\* the piA, piB and piC of proofToBytes(proof).
BytesToProof(proof, lengths) ==
    LET Returns(bytes) ==
            lastOp' = [op |-> "bytesToProof", args |-> <<bytes, proof>>,
                       ok |-> TRUE, ret |-> bytesToProof(bytes),
                       error |-> "", before |-> Snapshot]
        First(whole) ==
            Returns([piA |-> SubSeq(whole.piA, 1, lengths[1]),
                     piB |-> SubSeq(whole.piB, 1, lengths[2]),
                     piC |-> SubSeq(whole.piC, 1, lengths[3])])
    IN  /\ First(proofToBytes(proof).ret)
        /\ UNCHANGED <<treeVars, calls, stealthVars, proving, nullifierHashes,
                       clientVars>>

NextProofBytes ==
    \/ /\ lastOp = NoOp
       /\ \E proof \in Proofs \cup ForeignProofs : ProofToBytes(proof)
    \/ /\ lastOp = NoOp
       /\ \E proof \in Proofs, lengths \in ByteLengths : BytesToProof(proof, lengths)

SpecProofBytes == InitProofBytes /\ [][NextProofBytes]_vars

\* ------------------------------------------------------------------ proof verification
\* The MerkleProof objects handed to the verifier: any number of siblings and
\* of direction entries up to MaxProofLen, with the root the hash chain gives
\* or with root 0.
ProofShapes ==
    {[leaf |-> leaf, pathElements |-> pathElements, pathIndices |-> pathIndices] :
         leaf \in Values,
         pathElements \in UNION {[1..n -> Values] : n \in 0..MaxProofLen},
         pathIndices \in UNION {[1..n -> 0..MaxPathIndex] : n \in 0..MaxProofLen}}

WithRoot(shape, r) ==
    [root |-> r, pathElements |-> shape.pathElements,
     pathIndices |-> shape.pathIndices, leaf |-> shape.leaf, leafIndex |-> 0]

\* await verifyMerkleProof(proof): resolves to a boolean.
VerifyMerkleProof(proof) ==
    /\ lastOp' = [op |-> "verifyMerkleProof", args |-> <<proof>>, ok |-> TRUE,
                  ret |-> <<verifyMerkleProof(proof)>>, error |-> "",
                  before |-> Snapshot]
    /\ UNCHANGED <<treeVars, calls, stealthVars, proving, nullifierHashes, clientVars>>

\* await tree.verifyProof(proof)
VerifyProof(proof) ==
    /\ lastOp' = [op |-> "verifyProof", args |-> <<proof>>, ok |-> TRUE,
                  ret |-> <<verifyProof(proof)>>, error |-> "",
                  before |-> Snapshot]
    /\ UNCHANGED <<treeVars, calls, stealthVars, proving, nullifierHashes, clientVars>>

InitVerify == InitProver

\* The root the proof's own hash chain gives, or 0.
RootsFor(shape) == {HashUp(shape, 1, shape.leaf), Fe(0)}

NextVerify ==
    \/ /\ lastOp = NoOp
       /\ \E shape \in ProofShapes : \E r \in RootsFor(shape) :
              VerifyMerkleProof(WithRoot(shape, r))
    \/ /\ lastOp = NoOp
       /\ \E shape \in ProofShapes : \E r \in RootsFor(shape) :
              VerifyProof(WithRoot(shape, r))

SpecVerify == InitVerify /\ [][NextVerify]_vars

\* ------------------------------------------------------------------ local proof verification
\* snarkjs.groth16.verify(vkey, publicSignals, proof): true for a proof the
\* prover made, presented with the public signals it was made for.
groth16Verify(proof, publicSignals) ==
    /\ proof = "groth16"
    /\ proof = proving.result.proof
    /\ publicSignals = proving.result.publicSignals

\* types.ts verifyProof(proof, publicSignals, vkeyPath).  The import of snarkjs
\* and the fetch of the key are awaited inside the try block, and the catch
\* block returns true; the promise of groth16.verify is returned without an
\* await, so its rejection is the rejection of the call.
verifyProofWithKey(proof, publicSignals, snarkjs, vkey, verifierError) ==
    IF ~snarkjs \/ ~vkey THEN [ok |-> TRUE, ret |-> <<TRUE>>, error |-> ""]
    ELSE IF verifierError THEN [ok |-> FALSE, ret |-> <<>>, error |-> "rejected"]
    ELSE [ok |-> TRUE, ret |-> <<groth16Verify(proof, publicSignals)>>, error |-> ""]

\* The public signals presented with a proof: the ones it came with, or those
\* with the first one replaced.
SignalChoices(publicSignals) ==
    {publicSignals} \cup
    (IF publicSignals = <<>> THEN {} ELSE {[publicSignals EXCEPT ![1] = Fe(MaxVal + 1)]})

\* await verifyProof(proof, publicSignals, vkeyPath) on the proof object a
\* generate call returned; env tells what can be loaded and whether the
\* verifier fails.
VerifyProofLocally(publicSignals, env) ==
    /\ lastOp' = LET r == verifyProofWithKey(proving.result.proof, publicSignals,
                                             env.snarkjs, env.vkey, env.verifierError)
                 IN  [op |-> "types.verifyProof",
                      args |-> <<proving.result.proof, publicSignals, env>>,
                      ok |-> r.ok, ret |-> r.ret, error |-> r.error,
                      before |-> Snapshot]
    /\ UNCHANGED <<treeVars, calls, stealthVars, proving, nullifierHashes, clientVars>>

Environments == [snarkjs : BOOLEAN, vkey : BOOLEAN, verifierError : BOOLEAN]

InitChecker == InitProver

NextChecker ==
    \/ \E artifacts \in BOOLEAN : GenerateWithdrawProof(artifacts)
    \/ \E artifacts \in BOOLEAN : GenerateHumanshipProof(artifacts)
    \/ /\ proving # NotProving
       /\ ~proving.result.threw
       /\ lastOp = NoOp
       /\ \E publicSignals \in SignalChoices(proving.result.publicSignals),
             env \in Environments : VerifyProofLocally(publicSignals, env)

SpecChecker == InitChecker /\ [][NextChecker]_vars

\* ------------------------------------------------------------------ properties
LeafIndices == 0..(Len(leaves) - 1)

\* The Merkle root of a leaf list: what a tree holding exactly these leaves reports.
MerkleRootOf(lvs) ==
    IF Len(lvs) = 0 THEN RootOf(<<>>, levels, zeroValues)
    ELSE RootOf(rebuildTree(circomlibjs, lvs, levels, zeroValues), levels, zeroValues)

\* C1: after any sequence of awaited insert/insertBatch calls (none is still
\* suspended), every leaf index i < leafCount has a proof, and verifyMerkleProof
\* accepts it.
C1_ProofsVerify ==
    Quiescent =>
        \A i \in LeafIndices :
            LET proof == getProof(i) IN proof.ok /\ verifyMerkleProof(proof)

C1_Witness ==
    /\ Quiescent
    /\ lastOp.op = "getProof" /\ lastOp.ok
    /\ levels = 2 /\ Len(leaves) = 3
    /\ lastOp.args[1] = 2
    /\ verifyMerkleProof(getProof(2))

\* C4 (as claimed): at every point where the tree can be observed, also while
\* insert calls are suspended in an await, the root is the Merkle root of the
\* current leaf list and every leaf has a proof that verifies.
C4_InsertAtomic ==
    /\ root = MerkleRootOf(leaves)
    /\ \A i \in LeafIndices : getProof(i).ok /\ verifyMerkleProof(getProof(i))

ReplaceSibling(p, k, v) == [p EXCEPT !.pathElements[k] = v]

FlipBit(p, k) == [p EXCEPT !.pathIndices[k] = 1 - @]

\* The value verifyMerkleProof holds before it hashes level k (k = 1 is the leaf).
NodeAt(p, k) == HashUp([p EXCEPT !.pathElements = SubSeq(p.pathElements, 1, k - 1)],
                       1, p.leaf)

\* Values tried in place of sibling k: small values, every node of the sibling's
\* own layer and the empty-subtree constant of that level.
TamperValues(k) ==
    {Fe(n) : n \in 0..(MaxVal + 1)} \cup {layers[k][j] : j \in DOMAIN layers[k]}
                      \cup {getZeroValue(k - 1)}

\* C5 (as claimed): replacing one sibling by another value, or flipping one
\* direction bit, always makes verifyMerkleProof reject.
C5_AnyTamperRejected ==
    Quiescent => \A i \in LeafIndices : \A k \in 1..levels :
        /\ \A v \in TamperValues(k) \ {getProof(i).pathElements[k]} :
               ~verifyMerkleProof(ReplaceSibling(getProof(i), k, v))
        /\ ~verifyMerkleProof(FlipBit(getProof(i), k))

\* C5 (amended): on a tree with no insert in flight, replacing one sibling by
\* another value is always rejected; flipping direction bit k is rejected exactly
\* when the node on the path at level k differs from its sibling.
C5_TamperRejected ==
    Quiescent => \A i \in LeafIndices :
        LET proof == getProof(i)
        IN  \A k \in 1..levels :
                /\ proof.ok
                /\ \A v \in TamperValues(k) \ {proof.pathElements[k]} :
                       ~verifyMerkleProof(ReplaceSibling(proof, k, v))
                /\ verifyMerkleProof(FlipBit(proof, k))
                       <=> (NodeAt(proof, k) = proof.pathElements[k])

\* A proof was requested for leaf 1 of a depth-2 tree whose leaves 0 and 1 differ
\* and whose leaves 2 and 3 are equal.
C5_Witness ==
    /\ Quiescent
    /\ lastOp.op = "getProof" /\ lastOp.ok /\ lastOp.args[1] = 1
    /\ levels = 2 /\ Len(leaves) = 4
    /\ leaves[1] # leaves[2] /\ leaves[3] = leaves[4]
    /\ ~verifyMerkleProof(FlipBit(getProof(1), 1))
    /\ ~verifyMerkleProof(ReplaceSibling(getProof(1), 2, Fe(0)))

IsPrefix(a, b) == Len(a) <= Len(b) /\ \A j \in 1..Len(a) : a[j] = b[j]

\* C6: an insert returns the number of leaves appended before it (k for the k-th
\* insert), leafCount grows by exactly one, the commitment is stored at the
\* returned index, and no call changes or removes a leaf stored earlier.
C6_AppendOnly ==
    /\ IsPrefix(lastOp.before.leaves, leaves)
    /\ (Quiescent /\ lastOp.op = "insert" /\ lastOp.ok) =>
           /\ lastOp.ret = <<Len(lastOp.before.leaves)>>
           /\ Len(leaves) = Len(lastOp.before.leaves) + 1
           /\ leaves[lastOp.ret[1] + 1] = lastOp.args[1]
    /\ (Quiescent /\ lastOp.op = "insertBatch" /\ lastOp.ok) =>
           /\ leaves = lastOp.before.leaves \o lastOp.args
           /\ lastOp.ret = [j \in 1..Len(lastOp.args) |->
                               Len(lastOp.before.leaves) + j - 1]

C6_Witness ==
    /\ lastOp.op = "insert" /\ lastOp.ok /\ lastOp.ret = <<2>>
    /\ Len(leaves) = 3 /\ leaves[1] # leaves[3]

\* C7: among insert calls started without awaiting each other, no two resolve
\* with the same index, and each resolved index is where that call's commitment
\* sits in the leaf list.
C7_DistinctIndices ==
    \A a \in CallIds : (calls[a].op = "insert" /\ calls[a].pc = "done") =>
        /\ calls[a].index + 1 \in DOMAIN leaves
        /\ leaves[calls[a].index + 1] = calls[a].commitment
        /\ \A b \in CallIds \ {a} :
               (calls[b].op = "insert" /\ calls[b].pc = "done")
                   => calls[b].index # calls[a].index

\* Two calls overlapped (the second started while the first was suspended) and
\* both have resolved.
C7_Witness ==
    /\ calls[1].op = "insert" /\ calls[2].op = "insert"
    /\ calls[1].pc = "done" /\ calls[2].pc = "done"
    /\ calls[1].commitment # calls[2].commitment
    /\ Len(layers) > levels + 1

\* C8: insert on a full tree fails with 'Tree is full', insertBatch fails when the
\* batch would exceed 2^levels, both leave leaves, layers and root as they were,
\* and leafCount never exceeds 2^levels.
C8_Capacity ==
    /\ Len(leaves) <= Pow2(levels)
    /\ (Quiescent /\ lastOp.op = "insert"
            /\ Len(lastOp.before.leaves) >= Pow2(levels)) =>
           /\ ~lastOp.ok /\ lastOp.error = "Tree is full"
           /\ leaves = lastOp.before.leaves
           /\ layers = lastOp.before.layers
           /\ root = lastOp.before.root
    /\ (Quiescent /\ lastOp.op = "insertBatch"
            /\ Len(lastOp.before.leaves) + Len(lastOp.args) > Pow2(levels)) =>
           /\ ~lastOp.ok
           /\ leaves = lastOp.before.leaves
           /\ layers = lastOp.before.layers
           /\ root = lastOp.before.root
    /\ (lastOp.op \in {"insert", "insertBatch"} /\ ~lastOp.ok) =>
           Len(lastOp.before.leaves) + Len(lastOp.args) > Pow2(levels)

C8_Witness ==
    /\ lastOp.op = "insert" /\ ~lastOp.ok
    /\ levels = 2 /\ Len(leaves) = 4

\* C9 (as claimed): insert(c) changes the root if and only if c differs from the
\* empty-leaf constant getZeroValue(0), also on the empty tree.
C9_RootChangesIffNonZero ==
    (Quiescent /\ lastOp.op = "insert" /\ lastOp.ok) =>
        ((root # lastOp.before.root) <=> (lastOp.args[1] # getZeroValue(0)))

\* C2 (as claimed): a scan with kit K returns a match for every announcement that
\* generateStealthAddress produced for K's meta-address.
C2_ScanFindsOwnPayments ==
    (scanned.done /\ \A j \in DOMAIN announcements : ~Malformed(announcements[j])) =>
        \A i \in DOMAIN announcements :
            payments[i] = kit.metaAddress =>
                \E r \in DOMAIN scanned.results :
                    scanned.results[r].announcement = announcements[i]

\* C3 (as claimed): when the prover backend cannot produce a proof (the witness
\* does not satisfy the circuit, or the artifacts raise an error), the call ends
\* in an error with no proof object and no public signals.
C3_ProofGenerationFailsClosed ==
    (proving.fn # "none" /\ ~(proving.satisfied /\ proving.artifacts)) =>
        /\ proving.result.threw
        /\ proving.result.proof = "none"
        /\ proving.result.publicSignals = <<>>

\* The nullifier and the leaf index written in a note, hashed together.
NoteNullifierHash(note) == poseidonHash(circomlibjs, note.n, Fe(note.i[1]))

\* The withdrawal payloads a step hands to the ledger or the relayer.
WithdrawalsSent == {p \in sent' \ sent : p.instruction \in {"withdraw", "relayer"}}

\* C10: for one nullifier, generateNullifierHash gives different hashes for
\* different leaf indices; the nullifier hash a withdraw() call holds once it has
\* computed it, the one in the instruction or relayer request it sends, and the
\* one it returns are H(n, leafIndex) for the nullifier and the leaf index of the
\* note it was given, which is the hash of no other leaf index.
C10_LeafIndexInNullifierHash ==
    /\ [](\A n \in SecretChoices, i \in LeafIndexChoices, j \in LeafIndexChoices :
             i # j => generateNullifierHash(n, i) # generateNullifierHash(n, j))
    /\ [](\A c \in ClientIds :
             LET w == pending[c].withdraw
             IN  w.pc \in {"proving", "direct", "submitted"} =>
                     /\ w.nullifierHash = NoteNullifierHash(w.note)
                     /\ \A j \in LeafIndexChoices \ {w.note.i[1]} :
                            w.nullifierHash # poseidonHash(circomlibjs, w.note.n, Fe(j)))
    /\ [][\A c \in ClientIds :
               (pending[c].withdraw.pc \in {"proving", "direct"} /\
                pending'[c].withdraw.pc = "submitted") =>
                   /\ WithdrawalsSent # {} \/ sent' = sent
                   /\ \A p \in WithdrawalsSent :
                          p.data[3] = NoteNullifierHash(pending[c].withdraw.note)]_vars
    /\ []((lastOp.op = "withdraw" /\ lastOp.ok) =>
             lastOp.ret[1].nullifierHash = NoteNullifierHash(lastOp.args[2]))

\* A withdraw() call given a note with leaf index 1 has handed its withdrawal
\* to the ledger or the relayer, with the hash of the note's nullifier and 1.
C10_Witness ==
    \E c \in ClientIds :
        /\ pending[c].withdraw.pc = "submitted"
        /\ pending[c].withdraw.note.i = <<1>>
        /\ \E p \in sent :
               /\ p.instruction \in {"withdraw", "relayer"}
               /\ p.data[3] = poseidonHash(circomlibjs, pending[c].withdraw.note.n, Fe(1))
               /\ p.data[3] # poseidonHash(circomlibjs, pending[c].withdraw.note.n, Fe(0))

\* C11 (as claimed): every digest poseidonHash returns is the digest of the
\* function the circuits use; no value of another function is ever returned.
C11_NoFallbackHash ==
    \A a \in nullifierHashes : a.hash = NullifierHash(a.nullifier, a.leafIndex)

\* x < y as big-endian numbers of equal length.
Less(x, y) ==
    \E i \in DOMAIN x : x[i] < y[i] /\ \A j \in 1..(i - 1) : x[j] = y[j]

\* x - y for big-endian numbers of equal length with x >= y.
Minus(x, y) ==
    LET n == Len(x)
        borrow[i \in 1..(n + 1)] ==
            IF i > n THEN 0
            ELSE IF x[i] - y[i] - borrow[i + 1] < 0 THEN 1 ELSE 0
    IN  [i \in 1..n |-> (x[i] - y[i] - borrow[i + 1]) % 256]

\* q * y for a big-endian number y whose product still fits its length.
Times(y, q) ==
    LET n == Len(y)
        carry[i \in 1..(n + 1)] ==
            IF i > n THEN 0 ELSE (y[i] * q + carry[i + 1]) \div 256
    IN  [i \in 1..n |-> (y[i] * q + carry[i + 1]) % 256]

\* x modulo the group order, x given with one byte in front of KeyLength bytes
\* (x < 2^257, so the quotient is below 32).
ModGroupOrder(x) ==
    CHOOSE r \in {Minus(x, Times(<<0>> \o GroupOrder, q)) :
                     q \in {m \in 0..31 : ~Less(x, Times(<<0>> \o GroupOrder, m))}} :
        Less(r, <<0>> \o GroupOrder)

\* spendPrivkey + secretHash as a number of KeyLength + 1 bytes.
FullSum(a, b) ==
    LET s == AddBytes(a, b) IN <<s.carry>> \o s.bytes

\* C12 (as claimed): the derived key is (spendPrivate + H(sharedSecret)) reduced
\* modulo the group order, for all 32-byte values.
C12_DerivedKeyModGroupOrder ==
    lastOp.op = "deriveStealthPrivateKey" =>
        \A spendPrivkey \in {lastOp.args[1]}, secretHash \in {lastOp.args[2]} :
            \A sum \in {FullSum(spendPrivkey, secretHash)} :
                <<0>> \o lastOp.ret = ModGroupOrder(sum)

\* Announcement i was produced for a meta-address that shares neither key with
\* the scanning kit.
Unrelated(i) ==
    /\ payments[i].spendPubkey # kit.metaAddress.spendPubkey
    /\ payments[i].viewPubkey # kit.metaAddress.viewPubkey

WellFormed(anns) == SelectSeq(anns, LAMBDA a : ~Malformed(a))

\* C14 (as claimed): a scan over a list with an unparseable announcement does
\* not fail, and returns the matches of all the other announcements.
C14_MalformedSkipped ==
    scanned.done =>
        /\ ~scanned.threw
        /\ scanned.results = scanAnnouncements(kit, WellFormed(announcements)).results

\* deposit() on client c has returned the note.
IssuedTo(c, note) == \E x \in notes : x.client = c /\ x.note = note

\* C15 (as claimed): a withdraw of a note that deposit() returned on the same
\* client gets a Merkle proof whose leaf is the deposit's commitment; it does
\* not fail with 'Leaf index out of bounds'.
C15_WithdrawFindsDeposit ==
    /\ \A c \in ClientIds :
           LET w == pending[c].withdraw
           IN  (w.pc \in {"proving", "direct", "submitted"} /\ IssuedTo(c, w.note)) =>
                   w.merkleProof.leaf = w.note.c
    /\ (lastOp.op = "withdraw" /\ IssuedTo(lastOp.args[1], lastOp.args[2])) =>
           lastOp.error # "Leaf index out of bounds"

\* The root a MerkleTree holding exactly the ledger's leaves has.
LedgerRoot ==
    RootOf(InsertEvents(NewTree, ledger, 1).tree.layers, ClientLevels, ClientZeros)

\* C16 (as claimed): the leafIndex written into every note is the index at
\* which the ledger appended the commitment, and when a client's deposit()
\* has returned and no call is in flight, its local root is the root over the
\* ledger's leaf sequence.
C16_ClientMirrorsLedger ==
    /\ \A x \in notes : x.note.i = <<x.ledgerIndex>>
    /\ (lastOp.op = "deposit" /\ lastOp.ok /\ InFlight = 0) =>
           RootOf(clients[lastOp.args[1]].layers, ClientLevels, ClientZeros) = LedgerRoot

\* The field elements a payload carries: all of an instruction's data but the
\* proof object of a withdrawal (its first entry) and the recipient address of
\* a relayer request (its last entry).
PayloadValues(p) ==
    IF p.instruction = "withdraw" THEN {p.data[k] : k \in 2..Len(p.data)}
    ELSE IF p.instruction = "relayer" THEN {p.data[k] : k \in 2..(Len(p.data) - 1)}
    ELSE {p.data[k] : k \in DOMAIN p.data}

\* The secrets and nullifiers generateCommitment draws for the clients.
PrivateValues == UNION {{r[1], r[2]} : r \in RandomPairs}

\* C17: no payload handed to a ledger transaction or to the relayer carries a
\* secret or a nullifier.
C17_PrivateValuesNotSent ==
    \A p \in sent : PayloadValues(p) \cap PrivateValues = {}

\* A deposit, an identity registration and a withdrawal through the relayer
\* have all sent their payloads.
C17_Witness ==
    /\ notes # {}
    /\ \E p \in sent : p.instruction = "deposit"
    /\ \E p \in sent : p.instruction = "registerIdentity"
    /\ \E p \in sent : p.instruction = "relayer" /\ Len(p.data) = 7

\* C18: the Humanship circuit yields a proof only for the public nullifierHash
\* that generateExternalNullifierHash gives for the identity and the declared
\* externalNullifier; the hash of the same identity for any other
\* externalNullifier is a different value.
C18_OneNullifierHashPerScope ==
    (proving.fn = "generateHumanshipProof" /\ proving.result.proof = "groth16") =>
        LET in == proving.inputs
        IN  /\ in.nullifierHash =
                   generateExternalNullifierHash(in.identityNullifier,
                                                 in.externalNullifier)
            /\ \A e \in Values \ {in.externalNullifier} :
                   generateExternalNullifierHash(in.identityNullifier, e)
                       # in.nullifierHash

\* The prover produced a Humanship proof for an identity nullifier hash.
C18_Witness ==
    /\ proving.fn = "generateHumanshipProof"
    /\ proving.result.proof = "groth16"
    /\ proving.inputs.nullifierHash =
           generateExternalNullifierHash(proving.inputs.identityNullifier,
                                         proving.inputs.externalNullifier)

\* Property values that are numerals: strings BigInt() reads as a number, the
\* empty and the blank string apart.
Numeric(x) ==
    /\ x.t = "string"
    /\ Trim(x.v) # <<>>
    /\ StringToBigInt(x.v).ok

\* Property values a leafIndex may have: a number, or none.
IndexOrAbsent(x) == x.t \in {"number", "undefined"}

\* The properties of the object a JSON text denotes are numerals, the index a
\* number or absent.
HasFormat(json, keys, index) ==
    LET parsed == JSONparse(json)
    IN  /\ parsed.ok
        /\ parsed.value.t = "object"
        /\ \A key \in keys : Numeric(Field(parsed.value, key))
        /\ IndexOrAbsent(Field(parsed.value, index))

HasDepositFormat(json) ==
    HasFormat(json, {"secret", "nullifier", "commitment", "nullifierHash"}, "leafIndex")

HasNoteFormat(note) ==
    /\ Matches(note, 1, NotePrefix)
    /\ HasFormat(Base64Decode(SubSeq(note, Len(NotePrefix) + 1, Len(note))),
                 {"s", "n", "c"}, "i")

SameNote(deposit, d) ==
    /\ deposit.secret = d.secret
    /\ deposit.nullifier = d.nullifier
    /\ deposit.leafIndex = d.leafIndex

\* Decoding what the encoder wrote gives back the secret, the nullifier and
\* the leafIndex (absent stays absent).
NoteRoundTrip ==
    (lastOp.op \in {"deserializeDeposit", "parseNote"} /\ Len(lastOp.args) = 2) =>
        lastOp.ok /\ SameNote(lastOp.ret, lastOp.args[2])

\* C19: note encoding is lossless (deserializeDeposit after serializeDeposit
\* and parseNote after generateNote return the secret, nullifier and leafIndex
\* of the deposit), and input that does not have the note format (wrong
\* prefix, invalid JSON, non-numeric fields) ends in an error.
C19_NoteEncodingLossless ==
    /\ NoteRoundTrip
    /\ lastOp.op = "deserializeDeposit" =>
           (~HasDepositFormat(lastOp.args[1]) => ~lastOp.ok)
    /\ lastOp.op = "parseNote" =>
           (~HasNoteFormat(lastOp.args[1]) => ~lastOp.ok)

\* The 32-byte word of buffer that starts at byte offset, read big-endian.
WordAt(buffer, offset) == bufferToBigInt(SubSeq(buffer, offset + 1, offset + 32))

\* The number a decimal string of the proof denotes.
Coordinate(s) == DecimalValue(s)

\* The coordinates of a proof a prover wrote are decimal numerals.
DecimalProof(proof) ==
    \A s \in {proof.pi_a[1], proof.pi_a[2], proof.pi_b[1][1], proof.pi_b[1][2],
               proof.pi_b[2][1], proof.pi_b[2][2], proof.pi_c[1], proof.pi_c[2]} :
        IsNumeral(s, 10)

\* C20: for every proof, proofToBytes writes piB as the four 32-byte big-endian
\* words x1, x0, y1, y0 in this order (the sub-coordinates of each G2
\* coordinate exchanged), and piA and piC as x then y.
C20_G2Swap ==
    (lastOp.op = "proofToBytes" /\ DecimalProof(lastOp.args[1])) =>
        LET proof == lastOp.args[1]
            bytes == lastOp.ret
        IN  /\ lastOp.ok
            /\ Len(bytes.piA) = 64 /\ Len(bytes.piB) = 128 /\ Len(bytes.piC) = 64
            /\ WordAt(bytes.piB, 0) = Coordinate(proof.pi_b[1][2])
            /\ WordAt(bytes.piB, 32) = Coordinate(proof.pi_b[1][1])
            /\ WordAt(bytes.piB, 64) = Coordinate(proof.pi_b[2][2])
            /\ WordAt(bytes.piB, 96) = Coordinate(proof.pi_b[2][1])
            /\ WordAt(bytes.piA, 0) = Coordinate(proof.pi_a[1])
            /\ WordAt(bytes.piA, 32) = Coordinate(proof.pi_a[2])
            /\ WordAt(bytes.piC, 0) = Coordinate(proof.pi_c[1])
            /\ WordAt(bytes.piC, 32) = Coordinate(proof.pi_c[2])

\* proofToBytes has converted a proof whose G2 sub-coordinates differ within
\* both coordinates, one of them longer than a byte.
C20_Witness ==
    /\ lastOp.op = "proofToBytes"
    /\ lastOp.ok
    /\ DecimalProof(lastOp.args[1])
    /\ lastOp.args[1].pi_b[1][1] # lastOp.args[1].pi_b[1][2]
    /\ lastOp.args[1].pi_b[2][1] # lastOp.args[1].pi_b[2][2]
    /\ Coordinate(lastOp.args[1].pi_b[1][2]) > 255
    /\ lastOp.ret.piB[31] # 0

\* The root obtained by hashing a tree of 2^levels empty leaves.
EmptyTreeRoot ==
    RootOf(rebuildTree(circomlibjs, <<>>, levels, zeroValues), levels, zeroValues)

\* C21: the empty-subtree constants follow the hash recurrence, getZeroValue(0) = 0
\* and getZeroValue(i + 1) = H(getZeroValue(i), getZeroValue(i)) for every level
\* below the depth, and the root reported for a tree with no leaves is the root
\* of a tree of 2^levels empty leaves.
C21_ZeroValuesFollowHash ==
    /\ getZeroValue(0) = Fe(0)
    /\ \A i \in 0..(levels - 1) :
           getZeroValue(i + 1) = H(getZeroValue(i), getZeroValue(i))
    /\ leaves = <<>> => root = EmptyTreeRoot

RECURSIVE LeavesUnder(_, _)
\* The leaves of the tree of the given depth below a node of ideal hashes; a
\* node that is not a hash of two children stands for itself.
LeavesUnder(node, depth) ==
    IF depth = 0 \/ Len(node) # 2 THEN <<node>>
    ELSE LeavesUnder(node[1], depth - 1) \o LeavesUnder(node[2], depth - 1)

PairwiseDistinct(s) == \A i, j \in DOMAIN s : i # j => s[i] # s[j]

\* Binary digit k of n, digit 0 the least significant.
BitOf(n, k) == (n \div Pow2(k)) % 2

\* The little-endian integer encoded by direction bits: the number below
\* 2^Len(bits) whose binary digit k - 1 is bits[k], for every k.
LittleEndian(bits) ==
    CHOOSE n \in 0..(Pow2(Len(bits)) - 1) : \A k \in DOMAIN bits : BitOf(n, k - 1) = bits[k]

\* The nullifier hashes a prover may try for a deposit.
NullifierHashCandidates(nullifier) ==
    {Fe(0)} \cup {H(nullifier, Fe(k)) : k \in 0..(Pow2(CircuitLevels) - 1)}

\* C22: an assignment the Withdraw circuit accepts has binary path bits, has
\* H(secret, nullifier) hashing along the path to the public root, and has
\* nullifierHash = H(nullifier, little-endian value of the path bits); and when
\* the leaves of the tree under that root are pairwise distinct, every assignment
\* the circuit accepts for the same deposit and root has the same nullifierHash.
C22_WithdrawConstraints ==
    (proving.fn = "generateWithdrawProof" /\ proving.result.proof = "groth16") =>
        LET in == proving.inputs
        IN  /\ \A k \in DOMAIN in.pathIndices : in.pathIndices[k] \in {0, 1}
            /\ Len(in.pathIndices) = CircuitLevels
            /\ Len(in.pathElements) = CircuitLevels
            /\ verifyMerkleProof([leaf |-> H(in.secret, in.nullifier),
                                  pathElements |-> in.pathElements,
                                  pathIndices |-> in.pathIndices,
                                  root |-> in.root])
            /\ in.nullifierHash = H(in.nullifier, Fe(LittleEndian(in.pathIndices)))
            /\ PairwiseDistinct(LeavesUnder(in.root, CircuitLevels)) =>
                   \A pathElements \in Paths, pathIndices \in PathIndexChoices,
                      nullifierHash \in NullifierHashCandidates(in.nullifier) :
                       WithdrawSatisfied([in EXCEPT !.pathElements = pathElements,
                                                    !.pathIndices = pathIndices,
                                                    !.nullifierHash = nullifierHash])
                           => nullifierHash = in.nullifierHash

\* The prover produced a Withdraw proof for the deposit at leaf 3 of a tree of
\* depth 3 or more with pairwise distinct leaves: its path has several bits,
\* the sum has two non-zero terms, and the bits read in the other order, or
\* counted, give another number.
C22_Witness ==
    /\ proving.fn = "generateWithdrawProof"
    /\ proving.result.proof = "groth16"
    /\ CircuitLevels >= 3
    /\ proving.inputs.pathIndices[1] = 1
    /\ proving.inputs.pathIndices[2] = 1
    /\ \A k \in 3..CircuitLevels : proving.inputs.pathIndices[k] = 0
    /\ proving.inputs.nullifierHash = H(proving.inputs.nullifier, Fe(3))
    /\ PairwiseDistinct(LeavesUnder(proving.inputs.root, CircuitLevels))

\* The uniqueness of C22 without the condition on the leaves.
C22_UniqueForAnyTree ==
    (proving.fn = "generateWithdrawProof" /\ proving.result.proof = "groth16") =>
        LET in == proving.inputs
        IN  \A pathElements \in Paths, pathIndices \in PathIndexChoices,
               nullifierHash \in NullifierHashCandidates(in.nullifier) :
                WithdrawSatisfied([in EXCEPT !.pathElements = pathElements,
                                             !.pathIndices = pathIndices,
                                             !.nullifierHash = nullifierHash])
                    => nullifierHash = in.nullifierHash

\* C23: a proof returned by getProof(i) on a tree of depth levels has exactly
\* levels path elements and levels direction bits, every bit is 0 or 1, and the
\* little-endian integer of the bits is i, which is also the proof's leafIndex.
C23_ProofEncodesLeafIndex ==
    (lastOp.op = "getProof" /\ lastOp.ok) =>
        LET i == lastOp.args[1]
            proof == lastOp.ret[1]
        IN  /\ Len(proof.pathElements) = levels
            /\ Len(proof.pathIndices) = levels
            /\ \A k \in DOMAIN proof.pathIndices : proof.pathIndices[k] \in {0, 1}
            /\ LittleEndian(proof.pathIndices) = i
            /\ proof.leafIndex = i

\* getProof returned the proof of leaf 2 of a tree of depth 2 or more: its bits
\* read little-endian and big-endian differ.
C23_Witness ==
    /\ lastOp.op = "getProof"
    /\ lastOp.ok
    /\ lastOp.args[1] = 2
    /\ levels >= 2
    /\ lastOp.ret[1].pathIndices[2] = 1

\* The proof has a direction entry that is neither 0 nor 1.
NonBinary(proof) == \E k \in DOMAIN proof.pathIndices : proof.pathIndices[k] \notin {0, 1}

\* C24: verifyMerkleProof and MerkleTree.verifyProof reject a proof with a
\* direction bit that is neither 0 nor 1 as invalid input; they do not evaluate
\* it as if the bit were 1.
C24_NonBinaryBitRejected ==
    (lastOp.op \in {"verifyMerkleProof", "verifyProof"} /\ NonBinary(lastOp.args[1]))
        => ~lastOp.ok

\* C25: a proof is accepted only after exactly levels steps of hashing: one
\* whose pathElements or pathIndices have another length, such as the empty
\* proof whose leaf is its root, is not accepted.
C25_ExactlyDepthLevels ==
    (lastOp.op \in {"verifyMerkleProof", "verifyProof"} /\ lastOp.ret = <<TRUE>>) =>
        /\ Len(lastOp.args[1].pathElements) = levels
        /\ Len(lastOp.args[1].pathIndices) = levels

\* The view tag the scanning kit expects for an announcement:
\* firstByte(H(sharedSecret)).
ExpectedViewTag(a) ==
    FirstByte(sha256(<<sha256(<<kit.viewPrivkey, a.ephemeralPubkey>>)>>))

\* The stealth address the scanning kit expects for an announcement.
ExpectedAddress(a) ==
    Xor({kit.metaAddress.spendPubkey},
        {sha256(<<sha256(<<kit.viewPrivkey, a.ephemeralPubkey>>)>>)})

\* The results are announcements of the list, in the order of the list.
InAnnouncementOrder(results) ==
    \E f \in [DOMAIN results -> DOMAIN announcements] :
        /\ \A r \in DOMAIN results : results[r].announcement = announcements[f[r]]
        /\ \A r, q \in DOMAIN results : r < q => f[r] < f[q]

Called(fns, fn) == \E k \in DOMAIN fns : fns[k] = fn

\* A scan looked at the view tag first and stopped at a mismatch.
ViewTagFirst ==
    \A i \in DOMAIN scanned.steps :
        LET fns == scanned.steps[i]
        IN  /\ fns[1] = "computeSharedSecret"
            /\ Len(fns) >= 2 => fns[2] = "computeViewTag"
            /\ \A k \in DOMAIN fns :
                   fns[k] \in {"computeStealthPubkey", "deriveStealthPrivateKey"}
                       => k > 2
            /\ (~Malformed(announcements[i]) /\
                ExpectedViewTag(announcements[i]) # announcements[i].viewTag)
                   => /\ ~Called(fns, "computeStealthPubkey")
                      /\ ~Called(fns, "deriveStealthPrivateKey")

\* C26: scanAnnouncements compares the view tag first and, on a mismatch,
\* discards the announcement without computing the expected stealth public key
\* or a private key; every returned match has the expected view tag and the
\* expected stealth address; the matches are in announcement order; the scan
\* changes neither the kit nor the announcement list.
C26_ViewTagPrefilter ==
    /\ [](scanned.done =>
            /\ ViewTagFirst
            /\ \A r \in DOMAIN scanned.results :
                   LET a == scanned.results[r].announcement
                   IN  /\ a.viewTag = ExpectedViewTag(a)
                       /\ a.stealthAddress = ExpectedAddress(a)
            /\ InAnnouncementOrder(scanned.results))
    /\ [][(scanned'.done /\ scanned' # scanned) =>
              (kit' = kit /\ announcements' = announcements)]_vars

\* A scan returned two different matches, the later-dated one first as in the
\* list, and discarded at the view tag the announcement published between them.
C26_Witness ==
    /\ scanned.done
    /\ ~scanned.threw
    /\ Len(announcements) = 3
    /\ Len(scanned.results) = 2
    /\ scanned.results[1].announcement = announcements[1]
    /\ scanned.results[2].announcement = announcements[3]
    /\ announcements[1].timestamp > announcements[3].timestamp
    /\ scanned.steps[2] = <<"computeSharedSecret", "computeViewTag">>

\* C27: verifyProof returns true only when the Groth16 verifier accepted the
\* proof against the verification key and the public signals; when the key
\* cannot be loaded or the verifier raises an error the result is not true.
C27_VerifyOnlyAcceptsVerified ==
    (lastOp.op = "types.verifyProof" /\ lastOp.ok /\ lastOp.ret = <<TRUE>>) =>
        LET env == lastOp.args[3]
        IN  /\ env.snarkjs
            /\ env.vkey
            /\ ~env.verifierError
            /\ lastOp.args[1] = "groth16"
            /\ lastOp.args[2] = proving.result.publicSignals

\* C28: bytesToProof inverts proofToBytes on the affine coordinates: for a proof
\* whose coordinates fit in 32 bytes, bytesToProof(proofToBytes(proof)) has the
\* pi_a[0..1], pi_b[0], pi_b[1] and pi_c[0..1] of the proof.
C28_BytesRoundTrip ==
    (lastOp.op = "bytesToProof" /\ lastOp.args[1] = proofToBytes(lastOp.args[2]).ret) =>
        LET proof == lastOp.args[2]
            back == lastOp.ret
        IN  /\ back.pi_a[1] = proof.pi_a[1] /\ back.pi_a[2] = proof.pi_a[2]
            /\ back.pi_b[1] = proof.pi_b[1]
            /\ back.pi_b[2] = proof.pi_b[2]
            /\ back.pi_c[1] = proof.pi_c[1] /\ back.pi_c[2] = proof.pi_c[2]

\* C29: a client's local tree changes only in steps of a deposit call of that
\* client whose transaction the pool has confirmed (so a call that fails at the
\* wallet check, in getPoolState or in the confirmation leaves it as it was):
\* first by one push of that call's commitment, the one the ledger appended,
\* then by the hashing of the layers, which leaves the leaves alone.
C29_InsertOnlyAfterConfirmation ==
    [][\A c \in ClientIds :
           LET d == pending[c].deposit
           IN  /\ clients'[c] # clients[c] => d.pc \in {"confirmed", "hashing"}
               /\ (d.pc = "confirmed" /\ clients'[c] # clients[c]) =>
                      /\ clients'[c].leaves =
                             Append(clients[c].leaves, d.deposit.commitment)
                      /\ ledger[d.ledgerIndex[1] + 1] = d.deposit.commitment
               /\ d.pc = "hashing" => clients'[c].leaves = clients[c].leaves]_vars

\* A deposit of a client that holds a leaf already failed with a rejected
\* transaction.
C29_Witness ==
    /\ lastOp.op = "deposit"
    /\ ~lastOp.ok
    /\ lastOp.error = "Transaction rejected"
    /\ pending[lastOp.args[1]].deposit.pc = "idle"
    /\ clients[lastOp.args[1]].leaves # <<>>
    /\ Len(clients[lastOp.args[1]].leaves) = Len(ledger)

\* The nullifier hash of a Deposit record is the one of its leaf index.
NullifierHashOfIndex(d) ==
    d.leafIndex # <<>> => d.nullifierHash = H(d.nullifier, Fe(d.leafIndex[1]))

\* C30: every Deposit record with a defined leafIndex (returned by
\* createDeposit, held by deposit() after it assigned the index, returned by
\* parseNote) has nullifierHash = H(nullifier, leafIndex).
C30_RecordNullifierHash ==
    /\ \A x \in notes : NullifierHashOfIndex(x.deposit)
    /\ (lastOp.op \in {"client.parseNote", "createDeposit"} /\ lastOp.ok) =>
           NullifierHashOfIndex(lastOp.ret[1])

\* The createDeposit part of C30.
CreateDepositNullifierHash ==
    lastOp.op = "createDeposit" => NullifierHashOfIndex(lastOp.ret[1])

====
